---------------------------- MODULE Spec2Model ----------------------------
(***************************************************************************)
(* A model of libfp: the fat-pointer allocation header, views, the dynamic *)
(* array growth engine and the open-addressing hash table built on it.     *)
(*                                                                         *)
(* Every handler of the library is one action; the C functions are         *)
(* operators with the names they have in the source.                       *)
(***************************************************************************)
EXTENDS Integers, Sequences, FiniteSets, TLC

(***************************************************************************)
(* Bounds of the model.                                                    *)
(***************************************************************************)
\* keys offered to the hash table are the ints 1..MaxKey
MaxKey == 6
\* an operation that would leave more than MaxSlots slots is not taken
MaxSlots == 16
\* at most MaxLive keys are inserted-and-not-removed at a time
MaxLive == 3
\* at most MaxCalls calls are made on one table
MaxCalls == 5
\* at most MaxCallsTiny calls are made on a table of the tiny config
MaxCallsTiny == 3
\* a table of the retry config is offered the keys 1..MaxRetryKey in at most
\* MaxCallsRetry calls
MaxRetryKey == 8
MaxCallsRetry == 3
\* the values stored in a dynamic array are 1..MaxVal
MaxVal == 2
\* reserve is asked for 0..MaxReserve elements
MaxReserve == 5
\* a view spans at most MaxViewLen bytes, each 0..MaxByte
MaxViewLen == 3
MaxByte == 1
\* fp_malloc and fp_realloc are asked for 1..MaxCount elements
MaxCount == 3
ViewElementSize == 2
MaxTypedLen == 2
MaxBlocks == 4
\* the calls made on a dynamic array that is edited in every way
MaxCallsFull == 3
\* the sizes asked of it, and the positions and counts offered
MaxGrow == 3
\* the calls made on an array and its clone
MaxCallsClone == 4
\* the scenario that fills a default table inserts the keys 1..ScenarioKeys
ScenarioKeys == 9

(***************************************************************************)
(* Program constants.                                                      *)
(***************************************************************************)
FP_DEFAULT_HASH_TABLE_NEIGHBORHOOD_SIZE == 8
FP_DEFAULT_HASH_TABLE_BASE_SIZE == FP_DEFAULT_HASH_TABLE_NEIGHBORHOOD_SIZE
FP_DEFAULT_HASH_TABLE_MAX_FAIL_RETRIES == FP_DEFAULT_HASH_TABLE_NEIGHBORHOOD_SIZE
\* SIZE_MAX, the "not found" index
fp_not_found == -1
\* the null pointer, as the result of a function that returns a pointer
NULL == -2
\* the occupancy mask (1 << 31): an int, so as a size_t it is bits 31..63
OCCUPIED_BIT == 31
\* sizeof(int), the element type of the tables and arrays of the tests
SIZEOF_INT == 4

(***************************************************************************)
(* Zero-based access to sequences (C arrays).                              *)
(***************************************************************************)
At(s, i) == s[i + 1]
Put(s, i, v) == [s EXCEPT ![i + 1] = v]
Min(a, b) == IF a < b THEN a ELSE b
Max(a, b) == IF a > b THEN a ELSE b

(***************************************************************************)
(* 64-bit unsigned integers as eight bytes, least significant first.       *)
(***************************************************************************)
RECURSIVE XorBits(_, _, _)
XorBits(a, b, n) ==
    IF n = 0 THEN 0
    ELSE (((a % 2) + (b % 2)) % 2) + 2 * XorBits(a \div 2, b \div 2, n - 1)

\* FNV_OFFSET_BASIS = 14695981039346656037 = 0xcbf29ce484222325
FNV_OFFSET_BASIS == <<37, 35, 34, 132, 228, 156, 242, 203>>
\* FNV_PRIME = 1099511628211 = 2^40 + 435: the factor of the low part
FNV_PRIME_LOW == 435
\* ... and the byte position of its high bit (2^40 is byte 5)
FNV_PRIME_HIGH_BYTE == 5

\* hash *= FNV_PRIME, modulo 2^64
RECURSIVE MulPrimeFrom(_, _, _)
MulPrimeFrom(h, i, carry) ==
    IF i > 8 THEN <<>>
    ELSE LET shifted == IF i > FNV_PRIME_HIGH_BYTE THEN h[i - FNV_PRIME_HIGH_BYTE] ELSE 0
             v == h[i] * FNV_PRIME_LOW + shifted + carry
         IN <<v % 256>> \o MulPrimeFrom(h, i + 1, v \div 256)

MulPrime(h) == MulPrimeFrom(h, 1, 0)

\* the value of the bytes h[i..8] modulo m
RECURSIVE U64Mod(_, _, _)
U64Mod(h, i, m) ==
    IF i > 8 THEN 0
    ELSE (h[i] + 256 * U64Mod(h, i + 1, m)) % m

\* the bytes of an int key in memory (little endian)
RECURSIVE KeyBytesN(_, _)
KeyBytesN(k, n) == IF n = 0 THEN <<>> ELSE <<k % 256>> \o KeyBytesN(k \div 256, n - 1)
KeyBytes(k) == KeyBytesN(k, SIZEOF_INT)

\* fp_fnv1a_hash: the bytes are consumed from the last to the first
RECURSIVE fnv1a_loop(_, _, _)
fnv1a_loop(hash, view, i) ==
    IF i = 0 THEN hash
    ELSE LET x == Put(hash, 0, XorBits(At(hash, 0), view[i], 8))
         IN fnv1a_loop(MulPrime(x), view, i - 1)

fp_fnv1a_hash(view) == fnv1a_loop(FNV_OFFSET_BASIS, view, Len(view))

Keys == 1 .. MaxKey
\* the hash of every key of the model, computed once
HashOfKey == [k \in 1 .. Max(Max(MaxKey, MaxRetryKey), ScenarioKeys) |-> fp_fnv1a_hash(KeyBytes(k))]

(***************************************************************************)
(* The hash table.  A table is a record                                    *)
(*   slots    : the slot array, fpda_size(table) elements                  *)
(*   infos    : the entry_infos side array, one word per slot; a word is   *)
(*              the set of its set bits, OCCUPIED_BIT standing for 31..63  *)
(*   capacity : h.capacity of the slot array                               *)
(*   config   : the fp_hash_table_config of the header                     *)
(* A slot that was allocated and never written holds Indeterminate; a slot *)
(* cleared by memset holds 0.                                              *)
(***************************************************************************)
Indeterminate == -3

fpda_size(s) == Len(s)

\* fpht_default_config, with the hash and equality of fp::hash_table<int>
fpht_default_config ==
    [base_size |-> FP_DEFAULT_HASH_TABLE_BASE_SIZE,
     neighborhood_size |-> FP_DEFAULT_HASH_TABLE_NEIGHBORHOOD_SIZE,
     max_fail_retries |-> FP_DEFAULT_HASH_TABLE_MAX_FAIL_RETRIES]

\* a caller-chosen config: a small table with a short neighborhood
SmallBase == 4
SmallNeighborhood == 2
SmallRetries == 2
small_config ==
    [base_size |-> SmallBase,
     neighborhood_size |-> SmallNeighborhood,
     max_fail_retries |-> SmallRetries]

Configs == {small_config}

\* a caller-chosen config whose retries run out within a few inserts
TinyBase == 2
TinyNeighborhood == 1
TinyRetries == 1
tiny_config ==
    [base_size |-> TinyBase,
     neighborhood_size |-> TinyNeighborhood,
     max_fail_retries |-> TinyRetries]

\* a caller-chosen config with an odd slot count and two retries
RetryBase == 3
RetryNeighborhood == 1
RetryRetries == 2
retry_config ==
    [base_size |-> RetryBase,
     neighborhood_size |-> RetryNeighborhood,
     max_fail_retries |-> RetryRetries]

\* __fp_create_hash_table: base_size slots, entry_infos grown to base_size zeros
fp_create_hash_table(cfg) ==
    [slots |-> [i \in 1 .. cfg.base_size |-> Indeterminate],
     infos |-> [i \in 1 .. cfg.base_size |-> {}],
     capacity |-> cfg.base_size,
     config |-> cfg]

__fpht_entry_info(T, index) == At(T.infos, index)

\* *info & (1 << 31)
__fpht_entry_occupied(T, index) == OCCUPIED_BIT \in __fpht_entry_info(T, index)

__fpht_entry_set_occupied(T, index, state) ==
    [T EXCEPT !.infos = Put(@, index,
        IF state THEN At(@, index) \cup {OCCUPIED_BIT}
                 ELSE At(@, index) \ {OCCUPIED_BIT})]

\* config->hash_function(key) % fpda_size(table)
__fpht_hash(T, key) == U64Mod(HashOfKey[key], 1, fpda_size(T.slots))

\* config->compare_function: std::equal_to<int> (memcmp of two ints in C)
__fpht_compare_equal(a, b) == a = b

RECURSIVE find_empty_from(_, _, _)
find_empty_from(T, hash, i) ==
    IF i >= T.config.neighborhood_size THEN fp_not_found
    ELSE LET probe == (hash + i) % fpda_size(T.slots)
         IN IF ~__fpht_entry_occupied(T, probe) THEN probe
            ELSE find_empty_from(T, hash, i + 1)

\* a search that settles for the home slot when the neighborhood is full
find_empty_or_home(T, hash) ==
    IF find_empty_from(T, hash, 0) = fp_not_found THEN hash
    ELSE find_empty_from(T, hash, 0)

__fpht_find_empty_hash_position(T, hash) == find_empty_from(T, hash, 0)

\* __fpht_hash_distance, given the value its fpda_size call reads
__fpht_hash_distance(size, hash, position) ==
    IF position < hash THEN size - hash + position
    ELSE position - hash

(***************************************************************************)
(* 1 << d as the code evaluates it: an int shifted by a size_t.  For       *)
(* d < 31 it is bit d; for d = 31 it is INT_MIN, which as a size_t is bits *)
(* 31..63.  For any other d (d >= 32, or d "negative", i.e. wrapped around *)
(* 2^64) the shift is undefined: a 32-bit shift instruction takes the      *)
(* count modulo 32 ("mask32"), a 64-bit one takes it modulo 64 and the     *)
(* truncation to int drops bits 32..63 ("wide").                           *)
(***************************************************************************)
ShiftModes == {"mask32", "wide"}
IntBits == 32
WideBits == 64

OneShiftedBy(d, mode) ==
    IF d >= 0 /\ d < IntBits THEN {d}
    ELSE IF mode = "mask32" THEN {d % IntBits}
    ELSE IF d % WideBits < IntBits THEN {d % WideBits} ELSE {}

RECURSIVE __fpht_insert(_, _, _, _)
RECURSIVE __fpht_rehash_from(_, _, _, _, _)
RECURSIVE __fpht_double_size_and_rehash(_, _, _)

(***************************************************************************)
(* __fpht_insert.  ub is what the undefined behaviour of the call          *)
(* __fpht_hash_distance(table, ...) produces: insert passes its void**     *)
(* (the address of the caller's pointer variable) where the table pointer  *)
(* is expected, so the size is read from the memory in front of that       *)
(* variable (ub.stray), and the shift may be out of range (ub.shift).      *)
(***************************************************************************)
__fpht_insert(T, key, failures, ub) ==
    LET hash == __fpht_hash(T, key)
        position == __fpht_find_empty_hash_position(T, hash)
    IN IF position = fp_not_found /\ failures < T.config.max_fail_retries
       THEN LET r == __fpht_double_size_and_rehash(T, failures + 1, ub)
            IN IF r.ret = 0 THEN [t |-> r.t, ret |-> NULL]
               ELSE __fpht_insert(r.t, key, failures + 1, ub)
       ELSE IF position = fp_not_found THEN [t |-> T, ret |-> NULL]
       ELSE LET copied == [T EXCEPT !.slots = Put(@, position, key)]
                d == __fpht_hash_distance(ub.stray, hash, position)
                marked == [copied EXCEPT !.infos =
                              Put(@, hash, At(@, hash) \cup OneShiftedBy(d, ub.shift))]
            IN [t |-> __fpht_entry_set_occupied(marked, position, TRUE),
                ret |-> position]

\* a growth of entry_infos by one word too many
grow_infos_one_more(T, n) == [T EXCEPT !.infos = @ \o [i \in 1 .. n + 1 |-> {}]]

\* fpda_grow_and_initialize(entry_infos, n, 0)
grow_infos(T, n) == [T EXCEPT !.infos = @ \o [i \in 1 .. n |-> {}]]

\* a rehash loop that leaves the info word of an unoccupied slot as it was
RECURSIVE rehash_keeping_unoccupied(_, _, _, _, _)
rehash_keeping_unoccupied(T, i, size, failures, ub) ==
    IF i >= size THEN [t |-> T, ret |-> fp_not_found]
    ELSE IF ~__fpht_entry_occupied(T, i)
         THEN rehash_keeping_unoccupied(T, i + 1, size, failures, ub)
         ELSE LET cleared == [T EXCEPT !.infos = Put(@, i, {})]
                  r == __fpht_insert(cleared, At(cleared.slots, i), failures, ub)
              IN IF r.ret = NULL THEN [t |-> r.t, ret |-> i]
                 ELSE rehash_keeping_unoccupied(r.t, i + 1, size, failures, ub)

\* the loop of __fpht_rehash from slot i on; size is fpda_size at its start
__fpht_rehash_from(T, i, size, failures, ub) ==
    IF i >= size THEN [t |-> T, ret |-> fp_not_found]
    ELSE LET occupied == __fpht_entry_occupied(T, i)
             cleared == [T EXCEPT !.infos = Put(@, i, {})]
         IN IF ~occupied THEN __fpht_rehash_from(cleared, i + 1, size, failures, ub)
            ELSE LET scratch == At(cleared.slots, i)
                     r == __fpht_insert(cleared, scratch, failures, ub)
                 IN IF r.ret = NULL THEN [t |-> r.t, ret |-> i]
                    ELSE __fpht_rehash_from(r.t, i + 1, size, failures, ub)

__fpht_rehash(T, failures, ub) ==
    LET size == fpda_size(T.slots)
        entries_size == fpda_size(T.infos)
        T1 == IF entries_size < size THEN grow_infos(T, size - entries_size) ELSE T
    IN __fpht_rehash_from(T1, 0, size, failures, ub)

\* __fpht_maybe_grow(table, type_size, new_size, true, true)
__fpht_maybe_grow(T, new_size) ==
    IF T.capacity >= new_size
    THEN [T EXCEPT !.slots =
             @ \o [i \in 1 .. (Max(Len(@), new_size) - Len(@)) |-> Indeterminate]]
    ELSE [T EXCEPT !.slots =
             @ \o [i \in 1 .. (Max(Len(@), new_size) - Len(@)) |-> Indeterminate],
                   !.capacity = new_size]

\* the loop of __fpht_double_size_and_rehash over the odd cells
RECURSIVE move_odd_cells(_, _, _, _)
move_odd_cells(T, i, size, new_size) ==
    IF i >= size THEN T
    ELSE IF i % 2 = 1
         THEN LET to == new_size - i
                  moved == [T EXCEPT
                      !.slots = Put(Put(@, to, At(@, i)), i, 0),
                      !.infos = Put(Put(@, to, At(@, i)), i, At(@, to))]
              IN move_odd_cells(moved, i + 1, size, new_size)
         ELSE move_odd_cells(T, i + 1, size, new_size)

__fpht_double_size_and_rehash(T, failures, ub) ==
    LET size == fpda_size(T.slots)
        new_size == size * 2
        grown == grow_infos(__fpht_maybe_grow(T, new_size), size)
    IN __fpht_rehash(move_odd_cells(grown, 0, size, new_size), failures, ub)

RECURSIVE find_position_from(_, _, _, _)
find_position_from(T, key, hash, i) ==
    IF i >= T.config.neighborhood_size THEN fp_not_found
    ELSE LET probe == (hash + i) % fpda_size(T.slots)
         IN IF i \notin __fpht_entry_info(T, hash)
            THEN find_position_from(T, key, hash, i + 1)
            ELSE IF ~__fpht_entry_occupied(T, probe)
            THEN find_position_from(T, key, hash, i + 1)
            ELSE IF __fpht_compare_equal(key, At(T.slots, probe)) THEN probe
            ELSE find_position_from(T, key, hash, i + 1)

__fpht_find_position(T, key) == find_position_from(T, key, __fpht_hash(T, key), 0)

\* fpht_find: the slot, or NULL
fpht_find(T, key) ==
    LET p == __fpht_find_position(T, key) IN IF p /= fp_not_found THEN p ELSE NULL

\* fpht_contains: whether find_position finds the key
fpht_contains(T, key) == __fpht_find_position(T, key) /= fp_not_found

\* fpht_insert: find, and insert_assume_unique when not found
fpht_insert(T, key, ub) ==
    LET found == fpht_find(T, key)
    IN IF found = NULL THEN __fpht_insert(T, key, 0, ub) ELSE [t |-> T, ret |-> found]

\* fpht_remove: find_position, then fpht_remove_at_position
fpht_remove(T, key) ==
    LET p == __fpht_find_position(T, key)
    IN IF p = fp_not_found THEN T ELSE __fpht_entry_set_occupied(T, p, FALSE)

\* fpht_occupied_size: for(size_t i = fpda_size(table); --i; )
RECURSIVE occupied_count_down(_, _)
occupied_count_down(T, i) ==
    IF i - 1 = 0 THEN 0
    ELSE (IF __fpht_entry_occupied(T, i - 1) THEN 1 ELSE 0) + occupied_count_down(T, i - 1)

fpht_occupied_size(T) == occupied_count_down(T, fpda_size(T.slots))

(***************************************************************************)
(* The fat-pointer allocator (pointer.h).  A pointer is a record: ptr says *)
(* where it points ("null", "heap", "stack"), magic and size are the header *)
(* in front of the data, and data the elements.  The allocation function's *)
(* outcome is an input: ok is FALSE when it returns null.                  *)
(***************************************************************************)
FP_MAGIC_NUMBER == 65024
FP_HEAP_MAGIC_NUMBER == 65278
FP_STACK_MAGIC_NUMBER == 65279
FP_DYNARRAY_MAGIC_NUMBER == 65277
\* the C++ build reserves at least 8 bytes: _size = FP_MAX(_size, 8)
FP_MIN_ALLOCATION_BYTES == 8

NullPointer == [ptr |-> "null", magic |-> 0, size |-> 0, data |-> <<>>]

\* a new block in place of the old one, nothing copied into it
malloc_cells(old, count) == [i \in 1 .. count |-> Indeterminate]

\* realloc(p, size) of the default allocation function, in elements: the
\* block of count elements keeps the old contents up to the shorter length
realloc_cells(old, count) ==
    [i \in 1 .. count |-> IF i <= Len(old) THEN old[i] ELSE Indeterminate]

\* __fp_alloc(_p, _size): out is the result, called says whether the
\* allocation function was asked for memory, freed whether _p was released
__fp_alloc(_p, _size, ok) ==
    IF _p.ptr = "null" /\ _size = 0
    THEN [out |-> NullPointer, called |-> FALSE, freed |-> FALSE]
    ELSE IF _size = 0
    THEN [out |-> NullPointer, called |-> FALSE, freed |-> TRUE]
    ELSE IF ~ok
    THEN [out |-> NullPointer, called |-> TRUE, freed |-> FALSE]
    ELSE [out |-> [ptr |-> "heap", magic |-> FP_HEAP_MAGIC_NUMBER,
                   size |-> Max(_size, FP_MIN_ALLOCATION_BYTES),
                   data |-> _p.data],
          called |-> TRUE, freed |-> FALSE]

\* __fp_realloc(p, type_size, count): the header of the result is written
\* whatever __fp_alloc returned; faults names the stores made through a
\* pointer derived from a null result
__fp_realloc(p, type_size, count, ok) ==
    LET a == __fp_alloc(p, type_size * count, ok)
    IN [out    |-> IF a.out.ptr = "null" THEN a.out
                   ELSE [a.out EXCEPT !.magic = FP_HEAP_MAGIC_NUMBER, !.size = count,
                                      !.data = realloc_cells(@, count)],
        faults |-> IF a.out.ptr = "null" THEN {"header_write"} ELSE {},
        called |-> a.called,
        freed  |-> a.freed]

fp_malloc(type_size, _size, ok) == __fp_realloc(NullPointer, type_size, _size, ok)
fp_realloc(type_size, p, _size, ok) == __fp_realloc(p, type_size, _size, ok)

\* fp_alloca(type, _size): the header is written into the caller's frame
fp_alloca(type_size, _size) ==
    [ptr |-> "stack", magic |-> FP_STACK_MAGIC_NUMBER, size |-> _size,
     data |-> [i \in 1 .. _size |-> Indeterminate]]

\* is_fp(p); capacity is the word in front of the header, which belongs to
\* the allocation only in a dynamic array
is_fp(p, capacity) ==
    /\ p.ptr /= "null"
    /\ (p.magic \div 256) * 256 = FP_MAGIC_NUMBER
    /\ (p.size > 0 \/ capacity > 0)

fp_magic_number(p) == IF p.ptr = "null" THEN 0 ELSE p.magic
fp_is_stack_allocated(p) == fp_magic_number(p) = FP_STACK_MAGIC_NUMBER
fp_is_heap_allocated(p) ==
    fp_magic_number(p) = FP_HEAP_MAGIC_NUMBER \/ fp_magic_number(p) = FP_DYNARRAY_MAGIC_NUMBER

\* what a store through a null-derived pointer does: the process is killed
\* at the store, or the store lands somewhere and execution goes on
NullWriteOutcomes == {"trap", "continue"}

(***************************************************************************)
(* The dynamic array (dynarray.h).  An array variable is a record: ptr is  *)
(* "null", "heap", or "wild" for a pointer computed from a null allocation;*)
(* size and capacity are the header, data the capacity cells, type_size    *)
(* the sizeof of the element type.                                         *)
(***************************************************************************)
FPDA_DEFAULT_SIZE_BYTES == 16

NullArray(type_size) ==
    [ptr |-> "null", size |-> 0, capacity |-> 0, data |-> <<>>, type_size |-> type_size]

\* cells of a fresh allocation
Uninitialized(n) == [i \in 1 .. n |-> Indeterminate]

RECURSIVE pow2_at_least(_, _)
pow2_at_least(v, p) == IF p >= v THEN p ELSE pow2_at_least(v, 2 * p)

\* ++v without the --v before the smear: the least power of two > v
power_of_two_above(v) == pow2_at_least(v + 1, 1)

\* --v; smear the bits; ++v: the least power of two >= v, and 0 for 0
fp_upper_power_of_two(v) == IF v = 0 THEN 0 ELSE pow2_at_least(v, 1)

\* __fpda_malloc(_size, 0): the null check comes after the header offset
\* was added, so a null allocation yields a non-null pointer whose header
\* is then written.  The request is _size + 1 bytes and the header (whose
\* size is left out here: the request is non-zero either way).
__fpda_malloc(_size, ok) ==
    LET p == __fp_alloc(NullPointer, _size + 1, ok)
    IN [ptr |-> IF p.out.ptr = "null" THEN "wild" ELSE "heap",
        capacity |-> _size,
        size |-> 0]

\* a short copy: the last element is left out
copy_all_but_last(dest, src, n) ==
    [i \in 1 .. Len(dest) |-> IF i <= n - 1 THEN src[i] ELSE dest[i]]

\* memcpy(GET_DATA(_newH), GET_DATA(_h), type_size * GET_SIZE(_h))
copy_elements(dest, src, n) ==
    [i \in 1 .. Len(dest) |-> IF i <= n THEN src[i] ELSE dest[i]]

fpda_capacity(da) == IF da.ptr = "null" THEN 0 ELSE da.capacity

\* __fpda_maybe_grow: a is the array afterwards, ptr the index of the
\* returned cell (new_size - 1), allocs the number of allocations made,
\* faults what was done through a pointer derived from a null allocation
__fpda_maybe_grow(da, type_size, new_size, update_utilized, exact_sizing, ok) ==
    LET initial_size0 == IF exact_sizing THEN new_size
                         ELSE FPDA_DEFAULT_SIZE_BYTES \div type_size
        initial_size == IF initial_size0 = 0 THEN 1 ELSE initial_size0
        first == da.ptr = "null"
        m1 == __fpda_malloc(initial_size * type_size, ok)
        a1 == IF first
              THEN [ptr |-> m1.ptr, size |-> 0, capacity |-> m1.capacity \div type_size,
                    data |-> Uninitialized(initial_size), type_size |-> da.type_size]
              ELSE da
        faults1 == IF first /\ ~ok THEN {"header_write"} ELSE {}
        allocs1 == IF first THEN 1 ELSE 0
    IN IF a1.capacity >= new_size
       THEN [a |-> IF update_utilized
                   THEN [a1 EXCEPT !.size = Max(a1.size, new_size)]
                   ELSE a1,
             ptr |-> new_size - 1,
             allocs |-> allocs1,
             faults |-> faults1]
       ELSE LET _size2 == IF exact_sizing THEN new_size
                          ELSE fp_upper_power_of_two(new_size)
                m2 == __fpda_malloc(type_size * _size2, ok)
            IN [a |-> [ptr |-> m2.ptr,
                       size |-> IF update_utilized THEN Max(a1.size, new_size)
                                ELSE m2.size,
                       capacity |-> _size2,
                       data |-> copy_elements(Uninitialized(_size2), a1.data, a1.size),
                       type_size |-> da.type_size],
                ptr |-> new_size - 1,
                allocs |-> allocs1 + 1,
                faults |-> IF ok THEN faults1
                           ELSE faults1 \cup {"header_write", "old_freed"}
                                \cup (IF a1.size > 0 THEN {"element_copy"} ELSE {})]

__fpda_maybe_grow_short(a, _size, ok) ==
    __fpda_maybe_grow(a, a.type_size, _size, TRUE, FALSE, ok)

fpda_reserve(a, _size, ok) == __fpda_maybe_grow(a, a.type_size, _size, FALSE, TRUE, ok)

\* *__fpda_maybe_grow_short(a, size + 1) = _value
fpda_push_back(a, _value, ok) ==
    LET r == __fpda_maybe_grow_short(a, a.size + 1, ok)
    IN [r EXCEPT !.a.data = Put(r.a.data, r.ptr, _value)]

\* fpda_pop_back_n(a, _count): the size is decremented in the argument of
\* __fpda_maybe_grow_short, which then finds the capacity sufficient
fpda_pop_back_n(a, _count) ==
    LET shrunk == IF a.size <= 0 THEN a ELSE [a EXCEPT !.size = a.size - _count]
    IN __fpda_maybe_grow_short(shrunk, shrunk.size, TRUE)

fpda_pop_back(a) == fpda_pop_back_n(a, 1)

\* memswap(a, b, n) on the cells of one buffer, a and b being cell indices
memswap(data, a, b, n) ==
    IF a = b THEN data
    ELSE LET buffer == [i \in 0 .. n - 1 |-> At(data, a + i)]
             moved == [j \in 1 .. Len(data) |->
                          IF j - 1 >= a /\ j - 1 < a + n THEN At(data, b + (j - 1 - a))
                          ELSE data[j]]
         IN [j \in 1 .. Len(data) |->
                IF j - 1 >= b /\ j - 1 < b + n THEN buffer[j - 1 - b]
                ELSE moved[j]]

\* memcpy(dest, src, n) on the cells of one buffer, front to back
RECURSIVE memcpy_cells(_, _, _, _)
memcpy_cells(data, dest, src, n) ==
    IF n = 0 THEN data
    ELSE memcpy_cells(Put(data, dest, At(data, src)), dest + 1, src + 1, n - 1)

\* __fpda_swap_range: the ranges are compared as byte addresses; the
\* scratch cells are only used by the one-directional copy
__fpda_swap_range(da, type_size, range1_start, range2_start, count, bidirectional) ==
    LET start1 == type_size * range1_start
        start2 == type_size * range2_start
        end1 == start1 + count * type_size - 1
        end2 == start2 + count * type_size - 1
        overlapping == ~(end1 <= start2 \/ end2 <= start1)
        in_array == fpda_capacity(da) - da.size > count
        scratch == da.size - count
    IN IF bidirectional
       THEN [da EXCEPT !.data = memswap(da.data, range1_start, range2_start, count)]
       ELSE IF overlapping
       THEN IF in_array
            THEN [da EXCEPT !.data =
                     memcpy_cells(memcpy_cells(da.data, scratch, range1_start, count),
                                  range2_start, scratch, count)]
            ELSE [da EXCEPT !.data =
                     [j \in 1 .. Len(da.data) |->
                         IF j - 1 >= range2_start /\ j - 1 < range2_start + count
                         THEN At(da.data, range1_start + (j - 1 - range2_start))
                         ELSE da.data[j]]]
       ELSE [da EXCEPT !.data = memcpy_cells(da.data, range2_start, range1_start, count)]

fpda_swap_range(a, _start1, _start2, _count) ==
    __fpda_swap_range(a, a.type_size, _start1, _start2, _count, TRUE)

\* the growth of fpda_grow_to_size without the reallocation
grow_size_only(a, _size, ok) ==
    [a |-> [a EXCEPT !.size = Max(a.size, _size)], ptr |-> _size - 1,
     allocs |-> 0, faults |-> {}]

fpda_grow_to_size(a, _size, ok) == __fpda_maybe_grow(a, a.type_size, _size, TRUE, TRUE, ok)

\* a move that copies cell by cell from the front, as memcpy_cells does
move_front_to_back(data, dest, src, n) == memcpy_cells(data, dest, src, n)

\* memmove(dest, src, n) on the cells of one buffer: the source cells are
\* read before any is written
memmove_cells(data, dest, src, n) ==
    [j \in 1 .. Len(data) |->
        IF j - 1 >= dest /\ j - 1 < dest + n THEN At(data, src + (j - 1 - dest))
        ELSE data[j]]

\* __fpda_maybe_grow_insert: grows by new_size cells and moves the tail
\* from new_index on to the right; ptr is the index of the first cell freed.
\* The allocation function succeeds.
__fpda_maybe_grow_insert(da, type_size, new_index, new_size, exact_sizing) ==
    LET g == __fpda_maybe_grow(da, type_size, da.size + new_size, TRUE, exact_sizing, TRUE).a
        oldStart == new_index
        newStart == oldStart + new_size
        length == g.size - newStart
    IN [a |-> [g EXCEPT !.data = memmove_cells(@, newStart, oldStart, length)],
        ptr |-> oldStart]

\* *__fpda_maybe_grow_insert(&a, sizeof(*a), _pos, 1, false) = _val
fpda_insert(a, _pos, _val) ==
    LET r == __fpda_maybe_grow_insert(a, a.type_size, _pos, 1, FALSE)
    IN [r.a EXCEPT !.data = Put(@, r.ptr, _val)]

(***************************************************************************)
(* __fpda_delete.  start and count are size_t: fpda_resize passes a count  *)
(* that is negative as an integer, which stands for its value modulo 2^64; *)
(* start + count and size - count are taken modulo 2^64 as well, so they   *)
(* are the integers computed here.  With make_size_match_capacity the      *)
(* elements are copied to a fresh array of bytes whose size and capacity   *)
(* are then set to the new length.  The allocation function succeeds.      *)
(***************************************************************************)
__fpda_delete(da, type_size, start, count, make_size_match_capacity) ==
    LET newStart == start
        oldStart == newStart + count
        length == da.size - oldStart
    IN IF make_size_match_capacity
       THEN LET newLength == da.size - count
                new_ == fpda_grow_to_size(NullArray(1), newLength * type_size, TRUE).a
            IN [ptr |-> new_.ptr,
                size |-> newLength,
                capacity |-> newLength,
                data |-> [j \in 1 .. newLength |->
                            IF j - 1 < newStart
                            THEN IF oldStart /= 0 THEN At(da.data, j - 1) ELSE Indeterminate
                            ELSE At(da.data, oldStart + (j - 1 - newStart))],
                type_size |-> da.type_size]
       ELSE IF count /= 0
       THEN [da EXCEPT !.size = @ - count,
                       !.data = memmove_cells(@, newStart, oldStart, length)]
       ELSE da

\* a deletion that lowers the size and leaves the tail where it is
delete_range_no_move(a, _pos, _count) == [a EXCEPT !.size = @ - _count]

fpda_delete_range(a, _pos, _count) == __fpda_delete(a, a.type_size, _pos, _count, FALSE)

\* a shrinking deletion that keeps the allocation and its capacity
shrink_delete_range_in_place(a, _pos, _count) == fpda_delete_range(a, _pos, _count)

fpda_shrink_delete_range(a, _pos, _count) == __fpda_delete(a, a.type_size, _pos, _count, TRUE)

\* a resize that only ever grows
resize_by_growing(a, _size) == fpda_grow_to_size(a, _size, TRUE).a

\* fpda_resize: grow_to_size beyond the capacity, shrink_delete_range of
\* the last size - _size elements otherwise
fpda_resize(a, _size) ==
    IF _size > fpda_capacity(a) THEN fpda_grow_to_size(a, _size, TRUE).a
    ELSE LET __fp_count == a.size - _size
         IN fpda_shrink_delete_range(a, a.size - __fp_count, __fp_count)

\* a deletion that keeps the order of the elements
swap_delete_range_ordered(a, _pos, _count) == fpda_delete_range(a, _pos, _count)

\* fpda_swap_delete_range: the last _count elements are copied over the
\* range, then the size is reduced
fpda_swap_delete_range(a, _pos, _count) ==
    [__fpda_swap_range(a, a.type_size, a.size - _count, _pos, _count, FALSE)
        EXCEPT !.size = @ - _count]

\* __fpda_pop_front: with at most one element nothing is removed.  The
\* first element is parked in the cell behind the last one, which lies
\* outside the allocation when size = capacity (overflow).
__fpda_pop_front(da, type_size) ==
    IF da.size <= 1 THEN [a |-> da, ptr |-> 0, overflow |-> FALSE]
    ELSE LET tmp == At(da.data, 0)
             moved == memmove_cells(da.data, 0, 1, da.size - 1)
             inside == da.size < Len(da.data)
         IN [a |-> [da EXCEPT !.size = @ - 1,
                              !.data = IF inside THEN Put(moved, da.size, tmp) ELSE moved],
             ptr |-> da.size,
             overflow |-> ~inside]

\* __fpda_clone: __fpda_clone_to a null destination with shrink_to_fit; the
\* destination is grown as an array of bytes, the cells are copied, then
\* capacity and size are set.  The allocation function succeeds.
__fpda_clone(src, type_size) ==
    IF src.ptr = "null" THEN src
    ELSE LET newCapacity == src.size
             rawDest == fpda_grow_to_size(NullArray(1), newCapacity * type_size, TRUE).a
         IN [ptr |-> rawDest.ptr,
             size |-> src.size,
             capacity |-> newCapacity,
             data |-> [j \in 1 .. newCapacity |-> src.data[j]],
             type_size |-> src.type_size]

\* a clone that hands out the source's own allocation
same_block(src) == IF src.ptr = "null" THEN "none" ELSE "source"

\* the allocation the pointer returned by __fpda_clone points to: the one
\* made by the growth of the null destination
clone_block(src) ==
    IF src.ptr = "null" THEN "none"
    ELSE IF fpda_grow_to_size(NullArray(1), src.size * src.type_size, TRUE).allocs > 0
    THEN "fresh" ELSE "source"

\* __fpda_header(a)->h.size = 0; for a null array this is the null header
fpda_clear(a) == [a EXCEPT !.size = 0]

(***************************************************************************)
(* Views (pointer.h): a view is the sequence of the bytes it spans.        *)
(***************************************************************************)
fp_view_size(view) == Len(view)

\* memcmp: the sign of the first difference (-1, 0, 1 stand for negative,
\* zero, positive)
RECURSIVE memcmp(_, _, _)
memcmp(a, b, n) ==
    IF n = 0 THEN 0
    ELSE IF Head(a) < Head(b) THEN -1
    ELSE IF Head(a) > Head(b) THEN 1
    ELSE memcmp(Tail(a), Tail(b), n - 1)

\* if(fp_view_size(a) != fp_view_size(b)) return false;  that is, 0
fp_view_compare(a, b) ==
    IF fp_view_size(a) /= fp_view_size(b) THEN 0
    ELSE memcmp(a, b, fp_view_size(a))

fp_view_equal(a, b) == fp_view_compare(a, b) = 0

(***************************************************************************)
(* The state.                                                              *)
(*   table   : the hash table                                              *)
(*   live    : the keys inserted successfully and not removed since        *)
(*   arr     : the dynamic array variable                                  *)
(*   arrCall : the array before the last call on it, and the arguments     *)
(*   viewA, viewB : two views                                              *)
(*   fp      : a heap fat pointer variable                                 *)
(*   heap    : two handles a and b and the blocks allocated for them       *)
(*   allocFailed : the allocation function returned null in the last call  *)
(*   faults  : what the last call did through a null-derived pointer       *)
(*   crashed : the process was killed                                      *)
(*   lastOp, lastRet : the last call and what it returned                  *)
(*   calls   : the number of calls made so far                             *)
(***************************************************************************)
VARIABLES table, live, arr, arrCall, copy, viewA, viewB, fp, heap, allocFailed, faults,
          crashed, lastOp, lastRet, calls

vars == <<table, live, arr, arrCall, copy, viewA, viewB, fp, heap, allocFailed, faults,
          crashed, lastOp, lastRet, calls>>

htVars == <<table, live>>
daVars == <<arr, arrCall, copy>>
viewVars == <<viewA, viewB>>
allocVars == <<allocFailed, faults, crashed>>

\* the components a specification does not exercise
NoTable == table = NULL /\ live = {}
\* copy is a second array variable: block says which allocation it points to
NoCopy == [a |-> NullArray(SIZEOF_INT), block |-> "none"]

NoArray ==
    /\ arr = NullArray(SIZEOF_INT)
    /\ arrCall = [before |-> NullArray(SIZEOF_INT), arg |-> <<>>]
    /\ copy = NoCopy
NoViews == viewA = <<>> /\ viewB = <<>>
NoPointer == fp = NullPointer
\* a handle is 0 (null) or the number of a block; live holds the handles
\* that are constructed
NoHeap == heap = [a |-> 0, b |-> 0, live |-> {}, blocks |-> <<>>]
NoFault == allocFailed = FALSE /\ faults = {} /\ crashed = FALSE

Call == calls < MaxCalls /\ calls' = calls + 1

(***************************************************************************)
(* The hash-table state machine.                                           *)
(***************************************************************************)
CallHT == Call /\ UNCHANGED <<daVars, viewVars, heap, fp, allocVars>>

\* what the stray read and the shift of one call may produce
UBOutcomes(T) == [stray : {0, fpda_size(T.slots)}, shift : ShiftModes]

InitHT ==
    /\ \E cfg \in Configs : table = fp_create_hash_table(cfg)
    /\ live = {}
    /\ NoArray /\ NoViews /\ NoPointer /\ NoFault /\ NoHeap
    /\ lastOp = "create"
    /\ lastRet = 0
    /\ calls = 0

\* fpht_insert_assume_unique(table, key): the caller vouches the key is new
InsertAssumeUnique(k) ==
    /\ k \notin live
    /\ Cardinality(live) < MaxLive
    /\ \E ub \in UBOutcomes(table) :
         LET r == __fpht_insert(table, k, 0, ub)
         IN /\ fpda_size(r.t.slots) <= MaxSlots
            /\ table' = r.t
            /\ live' = IF r.ret /= NULL THEN live \cup {k} ELSE live
            /\ lastRet' = r.ret
    /\ lastOp' = "insert_assume_unique"

\* fpht_insert(table, key)
Insert(k) ==
    /\ Cardinality(live \cup {k}) <= MaxLive
    /\ \E ub \in UBOutcomes(table) :
         LET r == fpht_insert(table, k, ub)
         IN /\ fpda_size(r.t.slots) <= MaxSlots
            /\ table' = r.t
            /\ live' = IF r.ret /= NULL THEN live \cup {k} ELSE live
            /\ lastRet' = r.ret
    /\ lastOp' = "insert"

\* fpht_remove(table, key)
Remove(k) ==
    /\ table' = fpht_remove(table, k)
    /\ live' = live \ {k}
    /\ lastOp' = "remove"
    /\ lastRet' = __fpht_find_position(table, k)

\* fpht_rehash(table)
Rehash ==
    /\ \E ub \in UBOutcomes(table) :
         LET r == __fpht_rehash(table, 0, ub)
         IN /\ fpda_size(r.t.slots) <= MaxSlots
            /\ table' = r.t
            /\ lastRet' = r.ret
    /\ live' = live
    /\ lastOp' = "rehash"

\* fpht_double_size_and_rehash(table)
DoubleSizeAndRehash ==
    /\ \E ub \in UBOutcomes(table) :
         LET r == __fpht_double_size_and_rehash(table, 0, ub)
         IN /\ fpda_size(r.t.slots) <= MaxSlots
            /\ table' = r.t
            /\ lastRet' = r.ret
    /\ live' = live
    /\ lastOp' = "double_size_and_rehash"

NextHT ==
    \/ \E k \in Keys : CallHT /\ InsertAssumeUnique(k)
    \/ \E k \in Keys : CallHT /\ Insert(k)
    \/ \E k \in Keys : CallHT /\ Remove(k)
    \/ CallHT /\ Rehash
    \/ CallHT /\ DoubleSizeAndRehash

SpecHT == InitHT /\ [][NextHT]_vars

\* the same calls on a table created with the tiny config
InitHTTiny ==
    /\ table = fp_create_hash_table(tiny_config)
    /\ live = {}
    /\ NoArray /\ NoViews /\ NoPointer /\ NoFault /\ NoHeap
    /\ lastOp = "create"
    /\ lastRet = 0
    /\ calls = 0

\* a call on the tiny table: at most MaxCallsTiny of them
CallHTTiny == calls < MaxCallsTiny /\ CallHT

NextHTTiny ==
    \/ \E k \in Keys : CallHTTiny /\ InsertAssumeUnique(k)
    \/ \E k \in Keys : CallHTTiny /\ Insert(k)
    \/ \E k \in Keys : CallHTTiny /\ Remove(k)
    \/ CallHTTiny /\ Rehash
    \/ CallHTTiny /\ DoubleSizeAndRehash

SpecHTTiny == InitHTTiny /\ [][NextHTTiny]_vars

\* the same calls on a table created with the retry config
InitHTRetry ==
    /\ table = fp_create_hash_table(retry_config)
    /\ live = {}
    /\ NoArray /\ NoViews /\ NoPointer /\ NoFault /\ NoHeap
    /\ lastOp = "create"
    /\ lastRet = 0
    /\ calls = 0

RetryKeys == 1 .. MaxRetryKey
CallHTRetry == calls < MaxCallsRetry /\ CallHT

NextHTRetry ==
    \/ \E k \in RetryKeys : CallHTRetry /\ InsertAssumeUnique(k)
    \/ \E k \in RetryKeys : CallHTRetry /\ Insert(k)
    \/ \E k \in RetryKeys : CallHTRetry /\ Remove(k)
    \/ CallHTRetry /\ Rehash
    \/ CallHTRetry /\ DoubleSizeAndRehash

SpecHTRetry == InitHTRetry /\ [][NextHTRetry]_vars

(***************************************************************************)
(* A table that may be cleared.  A call that computes hash % fpda_size on  *)
(* a table of no slots divides by zero; fpht_occupied_size on such a table *)
(* counts down from 0 and reads entry_infos far outside its bounds.  Both  *)
(* are undefined: the call traps, or goes on and finds nothing.            *)
(***************************************************************************)
\* fpht_clear: fpht_finalize, then fpda_clear, which sets the size to 0
fpht_clear(T) == [T EXCEPT !.slots = <<>>]

CallHTClear ==
    /\ Call /\ ~crashed
    /\ UNCHANGED <<daVars, viewVars, heap, fp, allocFailed>>

\* the outcome of a call whose behaviour is undefined
Undefined(fault, ret) ==
    /\ faults' = faults \cup {fault}
    /\ crashed' \in BOOLEAN
    /\ lastRet' = ret
    /\ UNCHANGED <<table, live>>

\* fpht_clear(table)
ClearTable ==
    /\ table' = fpht_clear(table)
    /\ live' = {}
    /\ lastOp' = "clear"
    /\ lastRet' = 0
    /\ UNCHANGED <<faults, crashed>>

\* fpht_insert(table, key) on a table that may have been cleared
ClearedInsert(k) ==
    /\ lastOp' = "insert"
    /\ IF fpda_size(table.slots) = 0 THEN Undefined("division_by_zero", NULL)
       ELSE /\ Insert(k)
            /\ UNCHANGED <<faults, crashed>>

\* fpht_find_position(table, key)
FindPosition(k) ==
    /\ lastOp' = "find_position"
    /\ IF fpda_size(table.slots) = 0
       THEN Undefined("division_by_zero", fp_not_found)
       ELSE /\ lastRet' = __fpht_find_position(table, k)
            /\ UNCHANGED <<table, live, faults, crashed>>

\* fpht_occupied_size(table)
OccupiedSize ==
    /\ lastOp' = "occupied_size"
    /\ IF fpda_size(table.slots) = 0
       THEN Undefined("entry_info_out_of_bounds", 0)
       ELSE /\ lastRet' = fpht_occupied_size(table)
            /\ UNCHANGED <<table, live, faults, crashed>>

NextHTClear ==
    \/ \E k \in Keys : CallHTClear /\ ClearedInsert(k)
    \/ \E k \in Keys : CallHTClear /\ FindPosition(k)
    \/ CallHTClear /\ OccupiedSize
    \/ CallHTClear /\ ClearTable

SpecHTClear == InitHT /\ [][NextHTClear]_vars

(***************************************************************************)
(* The dynamic-array state machine.  The element type is int, a 64-bit     *)
(* integer or a 32-byte struct; the values stored are 1..MaxVal.  ok is    *)
(* the outcome of the allocation function, should the call allocate.       *)
(***************************************************************************)
TypeSizes == {SIZEOF_INT, 2 * SIZEOF_INT, 8 * SIZEOF_INT}
Vals == 1 .. MaxVal

CallDA == Call /\ ~crashed /\ arr.ptr /= "wild" /\ UNCHANGED <<htVars, viewVars, heap, fp, copy>>

\* the outcome of a call that grew the array: r is the result of the
\* growth, ret what the call returns
Grown(r, ret, ok) ==
    /\ allocFailed' = (~ok /\ r.allocs > 0)
    /\ \E outcome \in IF r.faults /= {} THEN NullWriteOutcomes ELSE {"none"} :
         /\ arr' = IF outcome = "trap" THEN arr ELSE r.a
         /\ faults' = IF outcome = "trap" THEN {"header_write"} ELSE r.faults
         /\ crashed' = (outcome = "trap")
         /\ lastRet' = IF outcome = "trap" THEN Indeterminate ELSE ret

InitDA ==
    /\ \E type_size \in TypeSizes :
         /\ arr = NullArray(type_size)
         /\ arrCall = [before |-> NullArray(type_size), arg |-> <<>>]
    /\ copy = NoCopy
    /\ NoTable /\ NoViews /\ NoPointer /\ NoFault /\ NoHeap
    /\ lastOp = "create"
    /\ lastRet = 0
    /\ calls = 0

\* fpda_push_back(arr, v)
PushBack(v, ok) ==
    /\ Grown(fpda_push_back(arr, v, ok), v, ok)
    /\ arrCall' = [before |-> arr, arg |-> <<v>>]
    /\ lastOp' = "push_back"

\* fpda_reserve(arr, n)
Reserve(n, ok) ==
    /\ Grown(fpda_reserve(arr, n, ok), n - 1, ok)
    /\ arrCall' = [before |-> arr, arg |-> <<n>>]
    /\ lastOp' = "reserve"

\* fpda_pop_back(arr)
PopBack ==
    /\ arr.size >= 1
    /\ arr' = fpda_pop_back(arr).a
    /\ arrCall' = [before |-> arr, arg |-> <<>>]
    /\ lastOp' = "pop_back"
    /\ lastRet' = At(arr.data, arr.size - 1)
    /\ UNCHANGED allocVars

\* fpda_swap_range(arr, s1, s2, count): both ranges lie within the size
SwapRange(s1, s2, count) ==
    /\ s1 + count <= arr.size
    /\ s2 + count <= arr.size
    /\ arr' = fpda_swap_range(arr, s1, s2, count)
    /\ arrCall' = [before |-> arr, arg |-> <<s1, s2, count>>]
    /\ lastOp' = "swap_range"
    /\ lastRet' = 0
    /\ UNCHANGED allocVars

\* the allocation function succeeds; after at most MaxCalls calls the array
\* holds at most MaxCalls elements, which bounds the ranges offered
NextDA ==
    \/ \E v \in Vals : CallDA /\ PushBack(v, TRUE)
    \/ \E n \in 0 .. MaxReserve : CallDA /\ Reserve(n, TRUE)
    \/ CallDA /\ PopBack
    \/ \E s1, s2 \in 0 .. MaxCalls, count \in 1 .. MaxCalls + 1 :
           CallDA /\ SwapRange(s1, s2, count)

SpecDA == InitDA /\ [][NextDA]_vars

(***************************************************************************)
(* The dynamic array with all its editing calls.  The allocation function  *)
(* succeeds; positions and counts are drawn within the array's size.       *)
(***************************************************************************)
CallDAFull == calls < MaxCallsFull /\ CallDA

\* the outcome of a call that does not touch the allocator's state
Edited(a, op, arg, ret) ==
    /\ arr' = a
    /\ arrCall' = [before |-> arr, arg |-> arg]
    /\ lastOp' = op
    /\ lastRet' = ret
    /\ UNCHANGED allocVars

\* fpda_grow_to_size(arr, n)
GrowToSize(n) == Edited(fpda_grow_to_size(arr, n, TRUE).a, "grow_to_size", <<n>>, n - 1)

\* fpda_insert(arr, pos, v); fpda_push_front(arr, v) is fpda_insert(arr, 0, v)
FpdaInsert(pos, v) ==
    /\ pos <= arr.size
    /\ Edited(fpda_insert(arr, pos, v), "insert", <<pos, v>>, v)

\* fpda_delete_range(arr, pos, count)
DeleteRange(pos, count) ==
    /\ arr.ptr = "heap"
    /\ pos + count <= arr.size
    /\ Edited(fpda_delete_range(arr, pos, count), "delete_range", <<pos, count>>, pos)

\* fpda_shrink_delete_range(arr, pos, count); fpda_shrink_to_fit(arr) is
\* the call with pos = 0 and count = 0
ShrinkDeleteRange(pos, count) ==
    /\ arr.ptr = "heap"
    /\ pos + count <= arr.size
    /\ Edited(fpda_shrink_delete_range(arr, pos, count), "shrink_delete_range",
              <<pos, count>>, pos)

\* fpda_resize(arr, n)
Resize(n) == Edited(fpda_resize(arr, n), "resize", <<n>>, 0)

\* fpda_swap_delete(arr, pos), which is fpda_swap_delete_range(arr, pos, 1)
SwapDelete(pos) ==
    /\ pos < arr.size
    /\ Edited(fpda_swap_delete_range(arr, pos, 1), "swap_delete", <<pos>>, arr.size - 1)

\* fpda_pop_front(arr): a write behind the allocation is a fault, after
\* which the program may or may not go on
PopFront ==
    /\ arr.size >= 1
    /\ LET r == __fpda_pop_front(arr, arr.type_size)
       IN /\ arr' = r.a
          /\ lastRet' = At(arr.data, 0)
          /\ faults' = IF r.overflow THEN {"overflow_write"} ELSE {}
          /\ crashed' \in IF r.overflow THEN BOOLEAN ELSE {FALSE}
    /\ arrCall' = [before |-> arr, arg |-> <<>>]
    /\ lastOp' = "pop_front"
    /\ UNCHANGED allocFailed

\* arr = fpda_clone(arr)
Clone == Edited(__fpda_clone(arr, arr.type_size), "clone", <<>>, 0)

\* fpda_clear(arr)
Clear ==
    /\ arr.ptr = "heap"
    /\ Edited(fpda_clear(arr), "clear", <<>>, 0)

NextDAFull ==
    \/ \E v \in Vals : CallDAFull /\ PushBack(v, TRUE)
    \/ \E n \in 0 .. MaxGrow : CallDAFull /\ Reserve(n, TRUE)
    \/ \E n \in 0 .. MaxGrow : CallDAFull /\ GrowToSize(n)
    \/ \E pos \in 0 .. MaxGrow, v \in Vals : CallDAFull /\ FpdaInsert(pos, v)
    \/ CallDAFull /\ PopBack
    \/ CallDAFull /\ PopFront
    \/ \E pos, count \in 0 .. MaxGrow : CallDAFull /\ DeleteRange(pos, count)
    \/ \E pos, count \in 0 .. MaxGrow : CallDAFull /\ ShrinkDeleteRange(pos, count)
    \/ \E s1, s2 \in 0 .. MaxGrow : CallDAFull /\ SwapRange(s1, s2, 1)
    \/ \E pos \in 0 .. MaxGrow : CallDAFull /\ SwapDelete(pos)
    \/ \E n \in 0 .. MaxGrow : CallDAFull /\ Resize(n)
    \/ CallDAFull /\ Clone
    \/ CallDAFull /\ Clear

SpecDAFull == InitDA /\ [][NextDAFull]_vars

(***************************************************************************)
(* A dynamic array of bytes (fp_dynarray(char), element size 1) under the  *)
(* calls of SpecDAFull.                                                    *)
(***************************************************************************)
\* the byte at index i <= capacity of a byte array's storage: a cell, or
\* the byte behind the capacity, where __fpda_malloc writes
\* h->h.data[_size] = 0
byte_at(a, i) == IF i < a.capacity THEN At(a.data, i) ELSE 0

InitBytes ==
    /\ arr = NullArray(1)
    /\ arrCall = [before |-> NullArray(1), arg |-> <<>>]
    /\ copy = NoCopy
    /\ NoTable /\ NoViews /\ NoPointer /\ NoFault /\ NoHeap
    /\ lastOp = "create"
    /\ lastRet = 0
    /\ calls = 0

SpecBytes == InitBytes /\ [][NextDAFull]_vars

(***************************************************************************)
(* An array and its clone: arr is filled, cloned into copy, and elements   *)
(* of either are overwritten.  A write goes to the allocation the variable *)
(* points to, and shows in every variable that points to it.               *)
(***************************************************************************)
CallClone ==
    /\ calls < MaxCallsClone
    /\ calls' = calls + 1
    /\ UNCHANGED <<htVars, viewVars, heap, fp, allocVars>>

\* copy = fpda_clone(arr)
CloneArr ==
    /\ copy' = [a |-> __fpda_clone(arr, arr.type_size), block |-> clone_block(arr)]
    /\ arrCall' = [before |-> arr, arg |-> <<>>]
    /\ lastOp' = "clone"
    /\ lastRet' = 0
    /\ UNCHANGED arr

\* arr[i] = v
WriteSource(i, v) ==
    /\ i < arr.size
    /\ arr' = [arr EXCEPT !.data = Put(@, i, v)]
    /\ copy' = IF copy.block = "source" THEN [copy EXCEPT !.a.data = Put(@, i, v)] ELSE copy
    /\ arrCall' = [before |-> arr, arg |-> <<i, v>>]
    /\ lastOp' = "write_source"
    /\ lastRet' = v

\* copy[i] = v
WriteCopy(i, v) ==
    /\ i < copy.a.size
    /\ copy' = [copy EXCEPT !.a.data = Put(@, i, v)]
    /\ arr' = IF copy.block = "source" THEN [arr EXCEPT !.data = Put(@, i, v)] ELSE arr
    /\ arrCall' = [before |-> arr, arg |-> <<i, v>>]
    /\ lastOp' = "write_copy"
    /\ lastRet' = v

NextClone ==
    \/ \E v \in Vals : calls < MaxCallsClone /\ copy = NoCopy /\ CallDA /\ PushBack(v, TRUE)
    \/ \E n \in 0 .. MaxGrow : calls < MaxCallsClone /\ copy = NoCopy /\ CallDA /\ Reserve(n, TRUE)
    \/ CallClone /\ copy = NoCopy /\ CloneArr
    \/ \E i \in 0 .. MaxGrow, v \in Vals : CallClone /\ WriteSource(i, v)
    \/ \E i \in 0 .. MaxGrow, v \in Vals : CallClone /\ WriteCopy(i, v)

SpecClone == InitDA /\ [][NextClone]_vars

(***************************************************************************)
(* Views: two views are drawn, then compared.                              *)
(***************************************************************************)
Bytes == 0 .. MaxByte
Views == UNION {[1 .. n -> Bytes] : n \in 0 .. MaxViewLen}

CallView == Call /\ UNCHANGED <<htVars, daVars, viewVars, heap, fp, allocVars>>

InitView ==
    /\ viewA \in Views
    /\ viewB \in Views
    /\ NoTable /\ NoArray /\ NoPointer /\ NoFault /\ NoHeap
    /\ lastOp = "create"
    /\ lastRet = 0
    /\ calls = 0

\* fp_view_compare(viewA, viewB)
ViewCompare ==
    /\ lastOp' = "view_compare"
    /\ lastRet' = fp_view_compare(viewA, viewB)

\* fp_view_equal(viewA, viewB)
ViewEqual ==
    /\ lastOp' = "view_equal"
    /\ lastRet' = fp_view_equal(viewA, viewB)

NextView ==
    \/ CallView /\ ViewCompare
    \/ CallView /\ ViewEqual

SpecView == InitView /\ [][NextView]_vars

(***************************************************************************)
(* Typed views, fp_view(T) with sizeof(T) = ViewElementSize: a view is the *)
(* sequence of its elements, an element the sequence of its bytes.         *)
(***************************************************************************)
Elements == [1 .. ViewElementSize -> Bytes]
TypedViews == UNION {[1 .. n -> Elements] : n \in 0 .. MaxTypedLen}

\* the bytes at fp_view_data_void(view), element after element
RECURSIVE view_bytes(_)
view_bytes(view) == IF view = <<>> THEN <<>> ELSE Head(view) \o view_bytes(Tail(view))

\* template<typename T> fp_view_compare: the sizes are element counts, and
\* the element count is also the number of bytes memcmp is given
fp_view_compare_T(a, b) ==
    IF fp_view_size(a) /= fp_view_size(b) THEN 0
    ELSE memcmp(view_bytes(a), view_bytes(b), fp_view_size(a))

InitTypedView ==
    /\ viewA \in TypedViews
    /\ viewB \in TypedViews
    /\ NoTable /\ NoArray /\ NoPointer /\ NoFault /\ NoHeap
    /\ lastOp = "create"
    /\ lastRet = 0
    /\ calls = 0

\* fp_view_compare(viewA, viewB) on typed views
TypedViewCompare ==
    /\ lastOp' = "typed_view_compare"
    /\ lastRet' = fp_view_compare_T(viewA, viewB)

\* template<typename T> fp_view_equal(viewA, viewB)
TypedViewEqual ==
    /\ lastOp' = "typed_view_equal"
    /\ lastRet' = (fp_view_compare_T(viewA, viewB) = 0)

NextTypedView ==
    \/ CallView /\ TypedViewCompare
    \/ CallView /\ TypedViewEqual

SpecTypedView == InitTypedView /\ [][NextTypedView]_vars

(***************************************************************************)
(* fp_swap on two fat pointers of element type T, sizeof(T) =              *)
(* ViewElementSize: viewA and viewB hold the elements of a and of b.       *)
(***************************************************************************)
\* the elements stored in a run of bytes
view_elements(bytes) ==
    [i \in 1 .. (Len(bytes) \div ViewElementSize) |->
        [j \in 1 .. ViewElementSize |-> bytes[(i - 1) * ViewElementSize + j]]]

\* memswap(a, b, n) on two regions given by their bytes: null when a and b
\* are one region, otherwise the first n bytes are exchanged
memswap_regions(a, b, n, same) ==
    IF same THEN [a |-> a, b |-> b, ret |-> "null"]
    ELSE [a   |-> [i \in 1 .. Len(a) |-> IF i <= n THEN b[i] ELSE a[i]],
          b   |-> [i \in 1 .. Len(b) |-> IF i <= n THEN a[i] ELSE b[i]],
          ret |-> "a"]

\* fp_swap(a, b): size is fp_size(a), an element count, and is handed to
\* memswap as its byte count
fp_swap(a, b, same) ==
    LET size == Len(a)
    IN  IF size /= Len(b) THEN [a |-> a, b |-> b, ret |-> FALSE]
        ELSE LET m == memswap_regions(view_bytes(a), view_bytes(b), size, same)
             IN  [a   |-> view_elements(m.a),
                  b   |-> view_elements(m.b),
                  ret |-> m.ret /= "null"]

CallSwap ==
    /\ Call
    /\ Len(viewA) >= 1 /\ Len(viewB) >= 1
    /\ UNCHANGED <<htVars, daVars, heap, fp, allocVars>>

\* fp_swap(a, b)
FpSwap ==
    LET r == fp_swap(viewA, viewB, FALSE)
    IN  /\ lastOp' = "fp_swap"
        /\ viewA' = r.a
        /\ viewB' = r.b
        /\ lastRet' = r.ret

\* fp_swap(a, a)
FpSwapSelf ==
    LET r == fp_swap(viewA, viewA, TRUE)
    IN  /\ lastOp' = "fp_swap_self"
        /\ viewA' = r.a
        /\ viewB' = viewB
        /\ lastRet' = r.ret

NextSwap ==
    \/ CallSwap /\ FpSwap
    \/ CallSwap /\ FpSwapSelf

SpecSwap == InitTypedView /\ [][NextSwap]_vars

(***************************************************************************)
(* Allocation under an allocation function that may return null.           *)
(***************************************************************************)
Counts == 1 .. MaxCount

CallFP == Call /\ ~crashed /\ UNCHANGED <<htVars, daVars, viewVars, heap>>

\* the outcome of a call of __fp_realloc: the variable takes the result
\* when there is one
Allocated(r, ok) ==
    /\ allocFailed' = (~ok /\ r.called)
    /\ \E outcome \in IF r.faults /= {} THEN NullWriteOutcomes ELSE {"none"} :
         /\ fp' = IF r.freed THEN NullPointer
                  ELSE IF r.out.ptr = "null" THEN fp ELSE r.out
         /\ faults' = r.faults
         /\ crashed' = (outcome = "trap")
         /\ lastRet' = IF outcome = "trap" THEN Indeterminate
                       ELSE IF r.out.ptr = "null" THEN NULL ELSE 0

InitAlloc ==
    /\ \E type_size \in TypeSizes :
         /\ arr = NullArray(type_size)
         /\ arrCall = [before |-> NullArray(type_size), arg |-> <<>>]
    /\ copy = NoCopy
    /\ NoTable /\ NoViews /\ NoPointer /\ NoFault /\ NoHeap
    /\ lastOp = "create"
    /\ lastRet = 0
    /\ calls = 0

\* fp = fp_malloc(int, count)
FpMalloc(count, ok) ==
    /\ fp.ptr = "null"
    /\ Allocated(fp_malloc(SIZEOF_INT, count, ok), ok)
    /\ lastOp' = "fp_malloc"

\* fp = fp_realloc(int, fp, count)
FpRealloc(count, ok) ==
    /\ fp.ptr = "heap"
    /\ Allocated(fp_realloc(SIZEOF_INT, fp, count, ok), ok)
    /\ lastOp' = "fp_realloc"

\* fp_free_and_null(fp): the header of any non-null pointer goes to the
\* allocation function with size 0, which calls free on it; free on a block
\* of the stack is undefined, after which the program may or may not go on
FpFree ==
    /\ fp.ptr /= "null"
    /\ LET r == __fp_alloc(fp, 0, TRUE)
           bad == r.freed /\ fp.ptr = "stack"
       IN /\ fp' = r.out
          /\ faults' = IF bad THEN {"stack_block_freed"} ELSE faults
          /\ crashed' \in IF bad THEN BOOLEAN ELSE {crashed}
    /\ lastOp' = "fp_free"
    /\ lastRet' = 0
    /\ UNCHANGED allocFailed

NextAlloc ==
    \/ \E count \in Counts, ok \in BOOLEAN : CallFP /\ FpMalloc(count, ok)
    \/ \E count \in Counts, ok \in BOOLEAN : CallFP /\ FpRealloc(count, ok)
    \/ CallFP /\ FpFree
    \/ \E v \in Vals, ok \in BOOLEAN : CallDA /\ PushBack(v, ok)
    \/ \E n \in 0 .. MaxReserve, ok \in BOOLEAN : CallDA /\ Reserve(n, ok)

SpecAlloc == InitAlloc /\ [][NextAlloc]_vars

(***************************************************************************)
(* One fat pointer of ints: allocated on the heap or in the caller's       *)
(* frame, written, reallocated and freed, counts of 0 included.  The       *)
(* allocation function succeeds.  arrCall.arg holds the call's arguments.  *)
(***************************************************************************)
CallPointer(args) ==
    /\ Call /\ ~crashed
    /\ arrCall' = [before |-> arr, arg |-> args]
    /\ UNCHANGED <<htVars, viewVars, heap, arr, copy>>

\* fp = fp_alloca(int, count)
FpAlloca(count) ==
    /\ fp.ptr = "null"
    /\ fp' = fp_alloca(SIZEOF_INT, count)
    /\ lastOp' = "fp_alloca"
    /\ lastRet' = 0
    /\ UNCHANGED allocVars

\* fp[i] = v
FpWrite(i, v) ==
    /\ fp.ptr /= "null"
    /\ i < fp.size
    /\ fp' = [fp EXCEPT !.data = Put(@, i, v)]
    /\ lastOp' = "write"
    /\ lastRet' = v
    /\ UNCHANGED allocVars

NextPointer ==
    \/ \E count \in 0 .. MaxCount : CallPointer(<<count>>) /\ FpMalloc(count, TRUE)
    \/ \E count \in 0 .. MaxCount : CallPointer(<<count>>) /\ FpRealloc(count, TRUE)
    \/ \E count \in Counts : CallPointer(<<count>>) /\ FpAlloca(count)
    \/ CallPointer(<<>>) /\ FpFree
    \/ \E i \in 0 .. MaxCount - 1, v \in Vals : CallPointer(<<i, v>>) /\ FpWrite(i, v)

SpecPointer == InitAlloc /\ [][NextPointer]_vars

(***************************************************************************)
(* Two owning handles, fp::auto_free<fp::pointer<int>> a and b, over       *)
(* blocks of one int.  heap.blocks records for each block allocated its    *)
(* element and how often it was freed.  arrCall.arg names the handles of   *)
(* the call: the target first, the source second.                          *)
(***************************************************************************)
Handles == {"a", "b"}
Alive(h) == h \in heap.live
Owns(h) == Alive(h) /\ heap[h] /= 0

CallOwner(args) ==
    /\ Call /\ ~crashed /\ Len(heap.blocks) < MaxBlocks
    /\ arrCall' = [before |-> arr, arg |-> args]
    /\ UNCHANGED <<htVars, viewVars, arr, copy, fp, allocFailed>>

\* the heap with a new block holding data, owned by handle h
WithNewBlock(h, data) ==
    [heap EXCEPT !.blocks = Append(@, [data |-> data, frees |-> 0]),
                 ![h] = Len(heap.blocks) + 1,
                 !.live = @ \cup {h}]

\* what a call that went through does to the rest of the state
Done(op) == lastOp' = op /\ lastRet' = 0 /\ faults' = {} /\ crashed' = FALSE

\* fp::auto_free h = fp::malloc<int>(1), or fp::auto_free h{} when null
Construct(h, null) ==
    /\ ~Alive(h)
    /\ heap' = IF null THEN [heap EXCEPT !.live = @ \cup {h}]
               ELSE WithNewBlock(h, Indeterminate)
    /\ Done("construct")

\* h[0] = v
OwnerWrite(h, v) ==
    /\ Owns(h)
    /\ heap' = [heap EXCEPT !.blocks[heap[h]].data = v]
    /\ Done("write")

\* auto_free(const auto_free& o): T(o.clone()); __fp_clone asserts
\* is_fp(ptr), and without the assertion fp_malloc(int, 0) follows
CopyConstruct(dst, src) ==
    /\ ~Alive(dst) /\ Alive(src)
    /\ IF Owns(src)
       THEN /\ heap' = WithNewBlock(dst, heap.blocks[heap[src]].data)
            /\ Done("copy_construct")
       ELSE /\ heap' = heap
            /\ lastOp' = "copy_construct"
            /\ lastRet' = Indeterminate
            /\ faults' = {"clone_of_null"}
            /\ crashed' = TRUE

\* auto_free(auto_free&& o): T(std::exchange(o.raw, nullptr))
MoveConstruct(dst, src) ==
    /\ ~Alive(dst) /\ Alive(src)
    /\ heap' = [heap EXCEPT ![dst] = heap[src], ![src] = 0, !.live = @ \cup {dst}]
    /\ Done("move_construct")

\* operator=(auto_free&& o) { ~auto_free(); T::raw = std::exchange(o.raw,
\* nullptr); return *this; }.  Inside a member function ~auto_free() is the
\* operator ~ applied to a temporary auto_free(), a null handle converted
\* to bool: no destructor of *this runs and nothing is freed.
MoveAssign(dst, src) ==
    /\ Alive(dst) /\ Alive(src)
    /\ heap' = IF dst = src THEN heap
               ELSE [heap EXCEPT ![dst] = heap[src], ![src] = 0]
    /\ Done("move_assign")

\* ~auto_free() { if(T::raw) T::free(true); } at the end of h's scope
Destroy(h) ==
    /\ Alive(h)
    /\ heap' = IF Owns(h)
               THEN [heap EXCEPT !.blocks[heap[h]].frees = @ + 1, ![h] = 0,
                                 !.live = @ \ {h}]
               ELSE [heap EXCEPT !.live = @ \ {h}]
    /\ Done("destroy")

NextOwner ==
    \/ \E h \in Handles, null \in BOOLEAN : CallOwner(<<h>>) /\ Construct(h, null)
    \/ \E h \in Handles, v \in Vals : CallOwner(<<h>>) /\ OwnerWrite(h, v)
    \/ \E dst, src \in Handles : CallOwner(<<dst, src>>) /\ CopyConstruct(dst, src)
    \/ \E dst, src \in Handles : CallOwner(<<dst, src>>) /\ MoveConstruct(dst, src)
    \/ \E dst, src \in Handles : CallOwner(<<dst, src>>) /\ MoveAssign(dst, src)
    \/ \E h \in Handles : CallOwner(<<h>>) /\ Destroy(h)

SpecOwner == InitAlloc /\ [][NextOwner]_vars

(***************************************************************************)
(* The fill scenario: a table of the default config, the keys 1, 2, ...    *)
(* inserted in that order with fpht_insert_assume_unique, and lookups in   *)
(* between.  calls is the number of inserts made.                          *)
(***************************************************************************)
InitScenario ==
    /\ table = fp_create_hash_table(fpht_default_config)
    /\ live = {}
    /\ NoArray /\ NoViews /\ NoPointer /\ NoFault /\ NoHeap
    /\ lastOp = "create"
    /\ lastRet = 0
    /\ calls = 0

\* fpht_insert_assume_unique(table, calls + 1)
ScenarioInsert ==
    /\ calls < ScenarioKeys
    /\ \E ub \in UBOutcomes(table) :
         LET r == __fpht_insert(table, calls + 1, 0, ub)
         IN /\ table' = r.t
            /\ live' = IF r.ret /= NULL THEN live \cup {calls + 1} ELSE live
            /\ lastRet' = r.ret
    /\ lastOp' = "insert_assume_unique"
    /\ calls' = calls + 1
    /\ UNCHANGED <<daVars, viewVars, heap, fp, allocVars>>

\* a lookup: it leaves the table as it is
ScenarioLookup(op, ret) ==
    /\ lastOp' = op
    /\ lastRet' = ret
    /\ UNCHANGED <<htVars, calls, daVars, viewVars, heap, fp, allocVars>>

\* fpht_find_position(table, k)
ScenarioFindPosition(k) == ScenarioLookup("find_position", __fpht_find_position(table, k))

\* fpht_find(table, k)
ScenarioFind(k) == ScenarioLookup("find", fpht_find(table, k))

\* fpht_contains(table, k)
ScenarioContains(k) == ScenarioLookup("contains", fpht_contains(table, k))

NextScenario ==
    \/ ScenarioInsert
    \/ \E k \in 1 .. ScenarioKeys : ScenarioFindPosition(k)
    \/ \E k \in 1 .. ScenarioKeys : ScenarioFind(k)
    \/ \E k \in 1 .. ScenarioKeys : ScenarioContains(k)

SpecScenario == InitScenario /\ [][NextScenario]_vars

\* the keys find reports
Findable(T) == {k \in Keys : __fpht_find_position(T, k) /= fp_not_found}

\* the slots whose occupancy bit is set
OccupiedSlots(T) == {i \in 0 .. fpda_size(T.slots) - 1 : __fpht_entry_occupied(T, i)}

(***************************************************************************)
(* C1: every key that was inserted successfully and not removed since is   *)
(* found by find, in a slot whose content equals the key.                  *)
(***************************************************************************)
C1_FindAfterInsert ==
    \A k \in live :
        LET p == __fpht_find_position(table, k)
        IN p /= fp_not_found /\ __fpht_compare_equal(At(table.slots, p), k)

(***************************************************************************)
(* C2: find reports a hit only for keys currently in the table: a key that *)
(* was never inserted, or was removed and not inserted again, is not found.*)
(***************************************************************************)
C2_FindOnlyLive == Findable(table) \subseteq live

\* how often v occurs among the first n cells
CountOf(data, n, v) == Cardinality({i \in 0 .. n - 1 : At(data, i) = v})

\* the first n cells of the array are what they were before the call
SameElements(n) == \A i \in 0 .. n - 1 : At(arr.data, i) = At(arrCall.before.data, i)

(***************************************************************************)
(* C3: when push_back finds size = capacity, every element that was in the *)
(* array is afterwards at the same index with the same value, the pushed   *)
(* value is at index old size, and the size has grown by exactly one.      *)
(***************************************************************************)
C3_PushBackGrowthKeepsElements ==
    (lastOp = "push_back" /\ arrCall.before.size = fpda_capacity(arrCall.before)) =>
        /\ arr.size = arrCall.before.size + 1
        /\ SameElements(arrCall.before.size)
        /\ At(arr.data, arrCall.before.size) = arrCall.arg[1]

\* a push_back on a full array of two or more elements moved it to a
\* larger allocation
C3_Witness ==
    /\ lastOp = "push_back"
    /\ arrCall.before.ptr = "heap"
    /\ arrCall.before.size = arrCall.before.capacity
    /\ arrCall.before.size >= 2
    /\ arr.capacity > arrCall.before.capacity

(***************************************************************************)
(* C4: reserve(n) changes neither the size of the array nor the values of  *)
(* its elements, whether or not it reallocates, and leaves capacity >= n.  *)
(***************************************************************************)
C4_ReserveKeepsSizeAndElements ==
    lastOp = "reserve" =>
        /\ arr.size = arrCall.before.size
        /\ SameElements(arrCall.before.size)
        /\ fpda_capacity(arr) >= arrCall.arg[1]

(***************************************************************************)
(* C5: two views of unequal length compare non-zero and are not equal,     *)
(* whatever they contain; equal is true exactly when compare is 0.         *)
(***************************************************************************)
C5_CompareIsLengthFirst ==
    /\ (lastOp = "view_compare" /\ fp_view_size(viewA) /= fp_view_size(viewB))
           => lastRet /= 0
    /\ (lastOp = "view_equal" /\ fp_view_size(viewA) /= fp_view_size(viewB))
           => lastRet = FALSE
    /\ lastOp = "view_equal" => (lastRet <=> fp_view_compare(viewA, viewB) = 0)

(***************************************************************************)
(* C6: when the allocation function returns null, the call returns null,   *)
(* nothing is written or copied through the null result, the existing      *)
(* allocation is not released, and the process goes on.                    *)
(***************************************************************************)
C6_NullAllocationPropagates ==
    allocFailed =>
        /\ faults = {}
        /\ ~crashed
        /\ lastRet = NULL
        /\ arr = arrCall.before

(***************************************************************************)
(* C7: after swap_range on two overlapping ranges each range holds what    *)
(* the other held before the call, and every value occurs in the array as  *)
(* often as it did before.                                                 *)
(***************************************************************************)
C7_SwapRangeOverlapping ==
    LET s1 == arrCall.arg[1]
        s2 == arrCall.arg[2]
        count == arrCall.arg[3]
        before == arrCall.before
    IN (lastOp = "swap_range" /\ s1 /= s2 /\ s1 < s2 + count /\ s2 < s1 + count) =>
        /\ \A i \in 0 .. count - 1 :
              /\ At(arr.data, s1 + i) = At(before.data, s2 + i)
              /\ At(arr.data, s2 + i) = At(before.data, s1 + i)
        /\ \A v \in Vals : CountOf(arr.data, arr.size, v) = CountOf(before.data, before.size, v)

\* the second half of C7 alone: no value is duplicated or lost
C7_SwapRangeKeepsValues ==
    lastOp = "swap_range" =>
        \A v \in Vals :
            CountOf(arr.data, arr.size, v) = CountOf(arrCall.before.data, arrCall.before.size, v)

(***************************************************************************)
(* C8: a rehash leaves the set of findable keys unchanged.                 *)
(***************************************************************************)
C8_RehashKeepsAssociations ==
    [][lastOp' = "rehash" => Findable(table') = Findable(table)]_vars

(***************************************************************************)
(* C9: when double_size_and_rehash returns fp_not_found, the keys findable *)
(* after the call are exactly the keys findable before it.                 *)
(***************************************************************************)
C9_DoubleKeepsAssociations ==
    [][(lastOp' = "double_size_and_rehash" /\ lastRet' = fp_not_found)
        => Findable(table') = Findable(table)]_vars

(***************************************************************************)
(* C10: occupied_size() is the number of slots whose occupancy bit is set, *)
(* over every slot index, hence the number of live keys and at most the    *)
(* slot count.                                                             *)
(***************************************************************************)
C10_OccupiedSizeCountsAll ==
    /\ fpht_occupied_size(table) = Cardinality(OccupiedSlots(table))
    /\ fpht_occupied_size(table) = Cardinality(live)
    /\ fpht_occupied_size(table) <= fpda_size(table.slots)
\* every slot of the neighborhood of key k is occupied
NeighborhoodFull(T, k) ==
    \A i \in 0 .. T.config.neighborhood_size - 1 :
        __fpht_entry_occupied(T, (__fpht_hash(T, k) + i) % fpda_size(T.slots))

(***************************************************************************)
(* C11: an insert called with the failure count at max_fail_retries on a   *)
(* table where the neighborhood of the key has no unoccupied slot returns  *)
(* NULL and leaves the slots and every info word as they were.             *)
(***************************************************************************)
C11_ExhaustedInsertFails ==
    \A k \in Keys, ub \in UBOutcomes(table) :
        NeighborhoodFull(table, k) =>
            LET r == __fpht_insert(table, k, table.config.max_fail_retries, ub)
            IN r.ret = NULL /\ r.t = table

\* an insert has just returned NULL for a key whose neighborhood is full
C11_Witness ==
    /\ lastOp = "insert_assume_unique"
    /\ lastRet = NULL
    /\ \E k \in Keys \ live : NeighborhoodFull(table, k)

(***************************************************************************)
(* C12: in a default table the first eight of the inserts 1..9 leave the   *)
(* table at 8 slots, the ninth doubles it exactly once (16 slots) and      *)
(* succeeds, and afterwards every key 1..9 is found.                       *)
(***************************************************************************)
C12_NinthInsertDoublesOnce ==
    /\ calls < ScenarioKeys => fpda_size(table.slots) = FP_DEFAULT_HASH_TABLE_BASE_SIZE
    /\ lastOp = "insert_assume_unique" => lastRet /= NULL
    /\ calls = ScenarioKeys =>
          /\ fpda_size(table.slots) = 2 * FP_DEFAULT_HASH_TABLE_BASE_SIZE
          /\ \A k \in 1 .. ScenarioKeys : __fpht_find_position(table, k) /= fp_not_found

\* the part of C12 about the doubling alone
C12_DoublingPart ==
    /\ calls < ScenarioKeys => fpda_size(table.slots) = FP_DEFAULT_HASH_TABLE_BASE_SIZE
    /\ lastOp = "insert_assume_unique" => lastRet /= NULL
    /\ calls = ScenarioKeys => fpda_size(table.slots) = 2 * FP_DEFAULT_HASH_TABLE_BASE_SIZE

\* the occupied slots that hold key k
SlotsHolding(T, k) == {p \in OccupiedSlots(T) : __fpht_compare_equal(At(T.slots, p), k)}

(***************************************************************************)
(* C13: the general insert searches first: when an equal key is already    *)
(* stored it returns that slot and leaves the table as it is (no second    *)
(* copy, same number of occupied slots); only when the key is absent does  *)
(* it do the assume-unique insertion.                                      *)
(***************************************************************************)
C13_InsertSearchesFirst ==
    \A k \in Keys, ub \in UBOutcomes(table) :
        LET r == fpht_insert(table, k, ub)
        IN IF SlotsHolding(table, k) /= {}
           THEN /\ r.ret \in SlotsHolding(table, k)
                /\ r.t = table
           ELSE r = __fpht_insert(table, k, 0, ub)

\* C13 for the keys that find reports
C13_FoundKeyIsReturned ==
    \A k \in Findable(table), ub \in UBOutcomes(table) :
        LET r == fpht_insert(table, k, ub)
        IN /\ r.ret \in SlotsHolding(table, k)
           /\ r.t = table

\* slot p is reachable from the home bucket of the key it holds
ReachableFromHome(T, p) ==
    LET h == __fpht_hash(T, At(T.slots, p))
        d == (p - h) % fpda_size(T.slots)
    IN /\ d < T.config.neighborhood_size
       /\ d \in __fpht_entry_info(T, h)

(***************************************************************************)
(* C14: every occupied slot p holding key K is reachable from K's home     *)
(* bucket h: the offset d = (p - h) mod slot_count is below                *)
(* neighborhood_size and bit d of entry_infos[h] is set, also when the     *)
(* probe wrapped past the end of the table.                                *)
(***************************************************************************)
C14_OccupiedSlotsReachable ==
    \A p \in OccupiedSlots(table) : ReachableFromHome(table, p)

\* C14 for the slots at or after the home bucket of their key
C14_UnwrappedAfterInsert ==
    lastOp \in {"insert", "insert_assume_unique"} /\ lastRet /= NULL
        /\ lastRet >= __fpht_hash(table, At(table.slots, lastRet))
        => ReachableFromHome(table, lastRet)

(***************************************************************************)
(* C15: after create and after any sequence of insert, remove, rehash and  *)
(* double_size_and_rehash calls, doublings nested in a rehash included,    *)
(* entry_infos has exactly as many words as the table has slots.           *)
(***************************************************************************)
C15_InfosMatchSlots == fpda_size(table.infos) = fpda_size(table.slots)

\* two inserts into the tiny table, then a doubling whose rehash doubles
\* again: at most 2 * base_size slots before the call, 8 * base_size after
C15_Witness ==
    /\ calls = 3
    /\ lastOp = "double_size_and_rehash"
    /\ Cardinality(live) = 2
    /\ fpda_size(table.slots) = 8 * table.config.base_size
    /\ fpda_size(table.infos) = fpda_size(table.slots)

(***************************************************************************)
(* C16: after any sequence of dynamic-array calls the array's size is at   *)
(* most its capacity.                                                      *)
(***************************************************************************)
C16_SizeWithinCapacity == arr.size <= fpda_capacity(arr)

\* a grow_to_size that reallocated and left the array full
C16_Witness ==
    /\ lastOp = "grow_to_size"
    /\ arrCall.before.size > 0
    /\ fpda_capacity(arr) > fpda_capacity(arrCall.before)
    /\ arr.size = fpda_capacity(arr)

\* the calls that are not explicit shrinking operations
NonShrinkingOps ==
    {"push_back", "insert", "pop_back", "pop_front", "delete_range", "swap_range",
     "swap_delete", "clear", "reserve", "grow_to_size"}

(***************************************************************************)
(* C17: the capacity never decreases across push_back, push_front, insert, *)
(* pop_back, pop_front, delete_range, swap, swap_delete, clear, reserve,   *)
(* grow_to_size and size-increasing resize calls.                          *)
(***************************************************************************)
C17_CapacityNeverDecreases ==
    \/ lastOp \in NonShrinkingOps
    \/ lastOp = "resize" /\ arrCall.arg[1] > arrCall.before.size
    => fpda_capacity(arr) >= fpda_capacity(arrCall.before)

\* C17 without the resize calls
C17_ExceptResize ==
    lastOp \in NonShrinkingOps => fpda_capacity(arr) >= fpda_capacity(arrCall.before)

(***************************************************************************)
(* C18: insert(pos, v) with pos <= size leaves the elements before pos as  *)
(* they were, puts v at pos, moves every element from pos on one index up  *)
(* with its value, and raises the size by exactly one, whether or not it   *)
(* reallocates.  push_front(v) is insert(0, v).                            *)
(***************************************************************************)
C18_InsertShiftsTail ==
    lastOp = "insert" =>
        LET b == arrCall.before
            pos == arrCall.arg[1]
            v == arrCall.arg[2]
        IN /\ arr.size = b.size + 1
           /\ \A i \in 0 .. pos - 1 : At(arr.data, i) = At(b.data, i)
           /\ At(arr.data, pos) = v
           /\ \A i \in pos .. b.size - 1 : At(arr.data, i + 1) = At(b.data, i)

\* an insert in the middle of a full array, which reallocates
C18_Witness ==
    /\ lastOp = "insert"
    /\ arrCall.arg[1] > 0
    /\ arrCall.arg[1] < arrCall.before.size
    /\ arrCall.before.size = fpda_capacity(arrCall.before)
    /\ fpda_capacity(arr) > fpda_capacity(arrCall.before)
    /\ At(arr.data, arrCall.arg[1] - 1) /= At(arr.data, arrCall.arg[1] + 1)

(***************************************************************************)
(* C19: delete_range(pos, count) with pos + count <= size removes exactly  *)
(* the elements at [pos, pos + count): the elements before pos are as they *)
(* were, the elements behind the range move left by count in their order,  *)
(* the size goes down by count and the capacity stays.                     *)
(***************************************************************************)
C19_DeleteRangeClosesGap ==
    lastOp = "delete_range" =>
        LET b == arrCall.before
            pos == arrCall.arg[1]
            count == arrCall.arg[2]
        IN /\ arr.size = b.size - count
           /\ fpda_capacity(arr) = fpda_capacity(b)
           /\ \A i \in 0 .. pos - 1 : At(arr.data, i) = At(b.data, i)
           /\ \A i \in pos .. arr.size - 1 : At(arr.data, i) = At(b.data, i + count)

\* a range in the middle is deleted: elements on both sides of it remain
C19_Witness ==
    /\ lastOp = "delete_range"
    /\ arrCall.arg[1] > 0
    /\ arrCall.arg[2] > 0
    /\ arrCall.arg[1] + arrCall.arg[2] < arrCall.before.size
    /\ At(arrCall.before.data, arrCall.arg[1]) /= At(arr.data, arrCall.arg[1])

(***************************************************************************)
(* C20: swap_delete(pos) on an array of size n with pos < n moves the last *)
(* element to index pos, leaves every other remaining element at its index *)
(* with its value and reduces the size to n - 1; the capacity stays.       *)
(***************************************************************************)
C20_SwapDeleteMovesLast ==
    lastOp = "swap_delete" =>
        LET b == arrCall.before
            pos == arrCall.arg[1]
        IN /\ arr.size = b.size - 1
           /\ fpda_capacity(arr) = fpda_capacity(b)
           /\ \A i \in 0 .. arr.size - 1 :
                 At(arr.data, i) = IF i = pos THEN At(b.data, b.size - 1) ELSE At(b.data, i)

\* an element that is not the last is deleted, and the last one differs
C20_Witness ==
    /\ lastOp = "swap_delete"
    /\ arrCall.arg[1] < arrCall.before.size - 1
    /\ arr.size >= 2
    /\ At(arr.data, arrCall.arg[1]) /= At(arrCall.before.data, arrCall.arg[1])

\* the clone in copy is faithful to the source in arr
CloneFaithful ==
    /\ copy.a.size = arr.size
    /\ fpda_capacity(copy.a) = arr.size
    /\ \A i \in 0 .. arr.size - 1 : At(copy.a.data, i) = At(arr.data, i)
    /\ arr = arrCall.before
    /\ arr.ptr /= "null" => copy.block = "fresh"

(***************************************************************************)
(* C21: a clone is a distinct allocation with the size and the elements of *)
(* the source and a capacity equal to the source's size; the source is     *)
(* left as it was, and a later write to either array does not show in the  *)
(* other.                                                                  *)
(***************************************************************************)
C21_CloneIsIndependent ==
    /\ [](lastOp = "clone" => CloneFaithful)
    /\ [][/\ lastOp' = "write_source" => copy' = copy
          /\ lastOp' = "write_copy" => arr' = arr]_vars

\* the clone of an array with spare capacity was written to and now differs
C21_Witness ==
    /\ lastOp = "write_copy"
    /\ copy.block = "fresh"
    /\ arr.size >= 2
    /\ fpda_capacity(arr) > arr.size
    /\ fpda_capacity(copy.a) = arr.size
    /\ \E i \in 0 .. arr.size - 1 : At(copy.a.data, i) /= At(arr.data, i)

(***************************************************************************)
(* C22: shrink_delete_range(pos, count) leaves the elements delete_range   *)
(* leaves, in the same order, and a capacity equal to the new size;        *)
(* shrink_to_fit (pos = 0, count = 0) deletes nothing, leaves the elements *)
(* unchanged and capacity = size.                                          *)
(***************************************************************************)
C22_ShrinkDeleteMatchesDelete ==
    lastOp = "shrink_delete_range" =>
        LET b == arrCall.before
            pos == arrCall.arg[1]
            count == arrCall.arg[2]
            d == fpda_delete_range(b, pos, count)
        IN /\ arr.size = b.size - count
           /\ arr.size = d.size
           /\ fpda_capacity(arr) = arr.size
           /\ \A i \in 0 .. arr.size - 1 : At(arr.data, i) = At(d.data, i)
           /\ \A i \in 0 .. pos - 1 : At(arr.data, i) = At(b.data, i)
           /\ \A i \in pos .. arr.size - 1 : At(arr.data, i) = At(b.data, i + count)

\* elements behind the deleted range moved, and spare capacity was given up
C22_Witness ==
    /\ lastOp = "shrink_delete_range"
    /\ arrCall.arg[2] > 0
    /\ arrCall.arg[1] + arrCall.arg[2] < arrCall.before.size
    /\ fpda_capacity(arrCall.before) > arrCall.before.size
    /\ fpda_capacity(arr) = arr.size
    /\ At(arr.data, arrCall.arg[1]) /= At(arrCall.before.data, arrCall.arg[1])

(***************************************************************************)
(* C23: after resize(n), for n below, at, or above the size and within or  *)
(* beyond the capacity, the size is n and the elements at the indices      *)
(* below min(old size, n) are unchanged; when n is below the old size the  *)
(* capacity becomes exactly n.                                             *)
(***************************************************************************)
C23_ResizeSetsSize ==
    lastOp = "resize" =>
        LET b == arrCall.before
            n == arrCall.arg[1]
        IN /\ arr.size = n
           /\ \A i \in 0 .. Min(b.size, n) - 1 : At(arr.data, i) = At(b.data, i)
           /\ n < b.size => fpda_capacity(arr) = n

\* a resize to a size between the array's size and its capacity
C23_Witness ==
    /\ lastOp = "resize"
    /\ arrCall.before.size > 0
    /\ arrCall.arg[1] > arrCall.before.size
    /\ arrCall.arg[1] < fpda_capacity(arrCall.before)
    /\ arr.size = arrCall.arg[1]
    /\ At(arr.data, 0) /= Indeterminate

\* the array after removing the first element of b, and the call's result
FirstRemoved(b) ==
    /\ arr.size = b.size - 1
    /\ \A i \in 1 .. b.size - 1 : At(arr.data, i - 1) = At(b.data, i)
    /\ lastRet = At(b.data, 0)

(***************************************************************************)
(* C24: pop_front on a non-empty array, one that holds a single element    *)
(* included, removes the first element: the size goes down by one, every   *)
(* remaining element moves from index i to i - 1, and the pointer returned *)
(* designates a copy of the removed element.                               *)
(***************************************************************************)
C24_PopFrontRemovesFirst ==
    lastOp = "pop_front" => FirstRemoved(arrCall.before)

\* C24 for arrays of two elements or more
C24_FromTwoElementsOn ==
    lastOp = "pop_front" /\ arrCall.before.size >= 2 => FirstRemoved(arrCall.before)

\* the calls that grow with exact sizing, and those that round up
ExactSizingOps == {"reserve", "grow_to_size"}
RoundingOps == {"push_back", "insert"}

\* the size the last growing call asked __fpda_maybe_grow for
RequestedSize ==
    IF lastOp \in ExactSizingOps THEN arrCall.arg[1] ELSE arrCall.before.size + 1

LeastPowerOfTwoAtLeast(n) ==
    CHOOSE p \in {2 ^ k : k \in 0 .. 8} : p >= n /\ (p = 1 \/ p \div 2 < n)

\* the reallocations the last growing call made on an array that was not null
Reallocations ==
    __fpda_maybe_grow(arrCall.before, arrCall.before.type_size, RequestedSize,
                      lastOp /= "reserve", lastOp \in ExactSizingOps, TRUE).allocs

\* the capacity policy, the first capacity of a null array under exact
\* sizing being exactFirst(requested size)
GrowthPolicy(exactFirst(_)) ==
    lastOp \in ExactSizingOps \cup RoundingOps =>
       LET b == arrCall.before
           n == RequestedSize
           exact == lastOp \in ExactSizingOps
           first == IF exact THEN exactFirst(n)
                    ELSE Max(1, FPDA_DEFAULT_SIZE_BYTES \div b.type_size)
           current == IF b.ptr = "null" THEN first ELSE b.capacity
       IN IF n > current
          THEN arr.capacity = IF exact THEN n ELSE LeastPowerOfTwoAtLeast(n)
          ELSE /\ arr.capacity = current
               /\ b.ptr /= "null" => Reallocations = 0

AsRequested(n) == n
AtLeastOne(n) == Max(1, n)

(***************************************************************************)
(* C25: growth follows the capacity policy.  A null array first gets       *)
(* capacity requested_size under exact sizing and                          *)
(* max(1, default_bytes / element_size) otherwise; a request above the     *)
(* current capacity sets the capacity to exactly the requested size under  *)
(* exact sizing (reserve, grow_to_size) and to the least power of two >=   *)
(* the requested size otherwise (push_back, insert); a request within the  *)
(* capacity never reallocates.                                             *)
(***************************************************************************)
C25_GrowthPolicyAsStated == GrowthPolicy(AsRequested)

\* C25 as amended: under exact sizing a null array first gets capacity
\* max(1, requested_size); the rest of the policy is as stated
C25_GrowthPolicy == GrowthPolicy(AtLeastOne)

\* a push_back asking for 3 cells of an array of capacity 2 gets 4
C25_Witness ==
    /\ lastOp = "push_back"
    /\ arrCall.before.ptr = "heap"
    /\ arrCall.before.capacity = 2
    /\ RequestedSize = 3
    /\ arr.capacity = 4

\* the calls that add one element, and the state after one that removed a
\* single element at a valid index
AddingOps == {"push_back", "insert"}
RemovedOne ==
    \/ lastOp \in {"pop_back", "pop_front"}
    \/ /\ lastOp = "delete_range"
       /\ arrCall.arg[2] = 1
       /\ arrCall.arg[1] < arrCall.before.size

(***************************************************************************)
(* C26: k push_back/push_front/insert calls followed by k removals of one  *)
(* element (pop_back, pop_front, or delete_ at a valid index) bring the    *)
(* size back to what it was before the sequence.  Stated for k = 1: a      *)
(* removal that follows an addition restores the size the array had        *)
(* before the addition.                                                    *)
(***************************************************************************)
C26_RoundTripRestoresSize ==
    [][(lastOp \in AddingOps /\ calls' = calls + 1 /\ RemovedOne')
         => (arr'.size = arrCall.before.size)]_vars

\* C26 with pop_back and delete_ as the removals
C26_ExceptPopFront ==
    [][(lastOp \in AddingOps /\ calls' = calls + 1 /\ RemovedOne' /\ lastOp' /= "pop_front")
         => (arr'.size = arrCall.before.size)]_vars

(***************************************************************************)
(* C27: the trailing-zero invariant.  After push_back, insert, pop_back,   *)
(* delete and resize calls on a dynamic array of bytes, the byte at index  *)
(* size (one past the last element in use) may be read and is zero.  A     *)
(* byte of the allocation that was never written counts as zero here.      *)
(***************************************************************************)
C27_TrailingZero ==
    /\ arr.type_size = 1
    /\ lastOp \in {"push_back", "insert", "pop_back", "delete_range", "resize"}
    => /\ arr.size <= arr.capacity
       /\ byte_at(arr, arr.size) \in {0, Indeterminate}

(***************************************************************************)
(* C28: a stack allocation is tagged Stack: is_fp is true of it,           *)
(* stack_allocated true, heap_allocated false, and its length is the one   *)
(* requested.  free on a Stack-tagged pointer is rejected: the block is    *)
(* never passed to the heap-free path.                                     *)
(***************************************************************************)
C28_StackAllocation ==
    /\ lastOp = "fp_alloca" =>
          /\ \A capacity \in {0, 1} : is_fp(fp, capacity)
          /\ fp_is_stack_allocated(fp)
          /\ ~fp_is_heap_allocated(fp)
          /\ fp.size = arrCall.arg[1]
    /\ lastOp = "fp_free" => "stack_block_freed" \notin faults

\* C28 without the free
C28_StackTag ==
    fp.ptr = "stack" =>
          /\ \A capacity \in {0, 1} : is_fp(fp, capacity)
          /\ fp_is_stack_allocated(fp)
          /\ ~fp_is_heap_allocated(fp)

(***************************************************************************)
(* C29: a zero-size request, through the typed malloc or realloc with a    *)
(* count of 0, frees the old allocation if one was passed and returns      *)
(* null, and no header is read or written through the null result.         *)
(***************************************************************************)
C29_ZeroSizeRequest ==
    lastOp \in {"fp_malloc", "fp_realloc"} /\ arrCall.arg[1] = 0 =>
        /\ fp = NullPointer
        /\ lastRet = NULL
        /\ faults = {}
        /\ ~crashed

\* C29 for __fp_alloc alone, which fp_free calls with size 0
C29_AllocAlone ==
    LET r == __fp_alloc(fp, 0, TRUE)
    IN r.out = NullPointer /\ ~r.called /\ (r.freed <=> fp.ptr /= "null")

(***************************************************************************)
(* C30: realloc(p, n) with n > 0 on a heap fat pointer of length m returns *)
(* a Heap-tagged fat pointer of length n whose first min(m, n) elements    *)
(* are the old contents; this holds of every reallocation in a sequence    *)
(* of successive ones.                                                     *)
(***************************************************************************)
C30_ReallocKeepsPrefix ==
    [][(lastOp' = "fp_realloc" /\ fp.ptr = "heap" /\ arrCall'.arg[1] > 0)
         => (/\ fp'.ptr = "heap"
             /\ is_fp(fp', 0)
             /\ fp_is_heap_allocated(fp')
             /\ fp'.magic = FP_HEAP_MAGIC_NUMBER
             /\ fp'.size = arrCall'.arg[1]
             /\ Len(fp'.data) = fp'.size
             /\ \A i \in 0 .. Min(fp.size, fp'.size) - 1 :
                    At(fp'.data, i) = At(fp.data, i))]_vars

\* fp_malloc(int, 1), fp[0] = 1, fp_realloc(int, fp, 3): the pointer has
\* three elements and the first is still the one written
C30_Witness ==
    /\ lastOp = "fp_realloc"
    /\ calls = 3
    /\ faults = {}
    /\ arrCall.arg = <<3>>
    /\ fp.size = 3
    /\ At(fp.data, 0) = 1
    /\ At(fp.data, 1) = Indeterminate

\* the blocks that no handle owns any more
Released(n) == \A h \in Handles : heap[h] /= n

(***************************************************************************)
(* C31: single ownership.  Copy-constructing an owning handle gives a      *)
(* distinct allocation with equal contents; moving transfers the           *)
(* allocation and leaves the source null; so across any sequence of copy,  *)
(* move, assign and destroy operations every allocation is freed exactly   *)
(* once, at the latest when no handle owns it any more, and no handle      *)
(* designates an allocation that was freed.                                *)
(***************************************************************************)
C31_SingleOwnership ==
    ~crashed =>
    /\ lastOp = "copy_construct" =>
          /\ heap.a /= heap.b
          /\ heap.blocks[heap.a].data = heap.blocks[heap.b].data
    /\ lastOp \in {"move_construct", "move_assign"} /\ arrCall.arg[1] /= arrCall.arg[2] =>
          heap[arrCall.arg[2]] = 0
    /\ \A n \in 1 .. Len(heap.blocks) :
          /\ heap.blocks[n].frees <= 1
          /\ heap.blocks[n].frees = 1 => Released(n)
          /\ Released(n) => heap.blocks[n].frees = 1

\* C31 without the requirement that a block no handle owns was freed
C31_NeverFreedTwice ==
    \A n \in 1 .. Len(heap.blocks) :
          /\ heap.blocks[n].frees <= 1
          /\ heap.blocks[n].frees = 1 => Released(n)

(***************************************************************************)
(* C32: for typed views whose elements are wider than one byte,            *)
(* equal(a, b) is true if and only if the views have the same length and   *)
(* every element of a equals the corresponding element of b: the           *)
(* comparison covers all length * element_size bytes.                      *)
(***************************************************************************)
C32_TypedViewEqual ==
    lastOp = "typed_view_equal" =>
        (lastRet <=>
            /\ fp_view_size(viewA) = fp_view_size(viewB)
            /\ \A i \in 1 .. fp_view_size(viewA) : viewA[i] = viewB[i])

\* C32 in one direction: views that are equal compare equal
C32_EqualViewsCompareEqual ==
    lastOp = "typed_view_equal" /\ viewA = viewB => lastRet

\* C32 for views of the same length
C32_SameLength ==
    lastOp = "typed_view_equal" /\ fp_view_size(viewA) = fp_view_size(viewB) =>
        (lastRet <=> viewA = viewB)

\* C33: fp_swap(a, b) on two distinct fat pointers of equal length returns
\* true and leaves in a the old contents of b and in b the old contents of
\* a; when the lengths differ it returns false and changes neither.
C33_SwapExchangesContents ==
    [][lastOp' = "fp_swap" =>
        IF Len(viewA) = Len(viewB)
        THEN lastRet' = TRUE /\ viewA' = viewB /\ viewB' = viewA
        ELSE lastRet' = FALSE /\ viewA' = viewA /\ viewB' = viewB]_vars

\* the same for the unequal lengths alone
C33_UnequalLengthsUntouched ==
    [][(lastOp' = "fp_swap" /\ Len(viewA) /= Len(viewB)) =>
        (lastRet' = FALSE /\ viewA' = viewA /\ viewB' = viewB)]_vars

\* what the doublings made by __fpht_insert itself return, in order
RECURSIVE RehashResults(_, _, _, _)
RehashResults(T, key, failures, ub) ==
    IF /\ __fpht_find_empty_hash_position(T, __fpht_hash(T, key)) = fp_not_found
       /\ failures < T.config.max_fail_retries
    THEN LET r == __fpht_double_size_and_rehash(T, failures + 1, ub)
         IN <<r.ret>> \o (IF r.ret = 0 THEN <<>>
                          ELSE RehashResults(r.t, key, failures + 1, ub))
    ELSE <<>>

RehashFailed(T, key, ub) ==
    \E i \in DOMAIN RehashResults(T, key, 0, ub) :
        RehashResults(T, key, 0, ub)[i] /= fp_not_found

\* C34: an insert whose double-size-and-rehash step reports a failing slot
\* index, whatever its value, returns the failure signal: insert never
\* reports success after a rehash that failed to re-place an element.
C34_FailedRehashFailsInsert ==
    \A k \in Keys \ live : \A ub \in UBOutcomes(table) :
        LET r == __fpht_insert(table, k, 0, ub)
        IN  (fpda_size(r.t.slots) <= MaxSlots /\ RehashFailed(table, k, ub))
                => r.ret = NULL

\* the same for a rehash that fails at slot 0, the one index insert tests for
C34_FailureAtSlotZero ==
    \A k \in Keys \ live : \A ub \in UBOutcomes(table) :
        LET r == __fpht_insert(table, k, 0, ub)
        IN  (/\ fpda_size(r.t.slots) <= MaxSlots
             /\ \E i \in DOMAIN RehashResults(table, k, 0, ub) :
                    RehashResults(table, k, 0, ub)[i] = 0)
                => r.ret = NULL

\* C35: one insert call doubles the table at most max_fail_retries times,
\* the doublings nested inside its rehashes included: the slot count after
\* the call is at most the slot count before it times 2^max_fail_retries.
C35_DoublingsBounded ==
    \A k \in RetryKeys \ live : \A ub \in UBOutcomes(table) :
        fpda_size(__fpht_insert(table, k, 0, ub).t.slots)
            <= fpda_size(table.slots) * 2 ^ table.config.max_fail_retries

\* every neighborhood bit set in entry_infos[h] designates an occupied slot
\* whose key has home bucket h
NoStaleBits(T) ==
    \A h \in 0 .. fpda_size(T.slots) - 1 :
        \A d \in 0 .. T.config.neighborhood_size - 1 :
            d \in __fpht_entry_info(T, h) =>
                LET probe == (h + d) % fpda_size(T.slots)
                IN  /\ __fpht_entry_occupied(T, probe)
                    /\ __fpht_hash(T, At(T.slots, probe)) = h

C36_NoStaleBitsAfterDoubling ==
    (lastOp = "double_size_and_rehash" /\ lastRet = fp_not_found) => NoStaleBits(table)

\* C37: after clear the table is empty and still usable: occupied_size is
\* 0, find of any key returns not-found without dividing by a zero slot
\* count, a subsequent insert succeeds and its key is then findable, and
\* entry_infos still has one word per slot.
C37_ClearLeavesUsableTable ==
    /\ faults = {}
    /\ lastOp = "clear" =>
          /\ fpda_size(table.infos) = fpda_size(table.slots)
          /\ fpda_size(table.slots) > 0
          /\ fpht_occupied_size(table) = 0
          /\ \A k \in Keys :
                /\ __fpht_find_position(table, k) = fp_not_found
                /\ \A ub \in UBOutcomes(table) :
                      LET r == fpht_insert(table, k, ub)
                      IN  r.ret /= NULL /\ __fpht_find_position(r.t, k) /= fp_not_found

\* the part of it about find: no call divides by a slot count of zero
C37_NoDivisionByZero == "division_by_zero" \notin faults

\* the part of it about entry_infos: one word per slot after a clear
C37_OneWordPerSlot ==
    lastOp = "clear" => fpda_size(table.infos) = fpda_size(table.slots)

\* how often v occurs in the cells lo .. hi - 1 of data
Occurrences(data, lo, hi, v) == Cardinality({i \in lo .. hi - 1 : At(data, i) = v})

\* what fpda_swap_delete_range(a, pos, count) has to leave: the size lower
\* by count, and every value as often as it occurred outside the range
SwapDeleteKeepsTheRest(a, pos, count) ==
    LET r == fpda_swap_delete_range(a, pos, count)
    IN  /\ r.size = a.size - count
        /\ \A i \in 0 .. a.size - 1 :
              Occurrences(r.data, 0, r.size, At(a.data, i))
                 = Occurrences(a.data, 0, pos, At(a.data, i))
                      + Occurrences(a.data, pos + count, a.size, At(a.data, i))

\* C38: for every valid pos and count (pos + count <= size), also when the
\* deleted range overlaps the last count elements, swap_delete_range
\* reduces the size by count and leaves exactly the elements that lay
\* outside [pos, pos + count), each once, in some order.
C38_SwapDeleteRange ==
    arr.ptr /= "null" =>
        \A pos \in 0 .. arr.size : \A count \in 0 .. arr.size - pos :
            SwapDeleteKeepsTheRest(arr, pos, count)

\* the same for the ranges that do not reach into the last count elements
C38_DisjointRanges ==
    arr.ptr /= "null" =>
        \A pos \in 0 .. arr.size : \A count \in 0 .. arr.size - pos :
            (pos + count <= arr.size - count \/ pos = arr.size - count)
                => SwapDeleteKeepsTheRest(arr, pos, count)

\* C39: pop_front never writes outside the array's storage: for every
\* array with 1 <= size <= capacity, size = capacity included, every
\* element slot it writes has an index in [0, capacity).
C39_PopFrontStaysInside ==
    lastOp = "pop_front" => "overflow_write" \notin faults

\* the same for the arrays with a spare cell
C39_WithSpareCapacity ==
    (lastOp = "pop_front" /\ arrCall.before.size < arrCall.before.capacity)
        => "overflow_write" \notin faults

=============================================================================
